---- MODULE Spec2Model ----
(***************************************************************************)
(* TimerRegistry (src/timer/timer.hxx) and StatsRegistry                   *)
(* (src/stats_registry/stats_registry.hxx) as a state machine.             *)
(*                                                                         *)
(* Doubles are modelled exactly: sample values and clock readings are      *)
(* integers, the Welford mean and M2 are normalised fractions <<n, d>>.    *)
(* A standard deviation is carried as its square (the variance), so that   *)
(* "stddev * stddev" in the code is the carried value itself.              *)
(* Histogram values and bounds are counted in halves (1 == 0.5).           *)
(***************************************************************************)
EXTENDS Integers, Sequences, FiniteSets, TLC

\* ------------------------------------------------------------------ bounds
MaxClock == 1          \* the steady clock takes the values 0..MaxClock
MaxOps == 4            \* timer calls (start/stop/reset) issued in one run
MaxStatOps == 4        \* counter/gauge/histogram calls issued in one run
MaxDelta == 2          \* counter deltas are drawn from 1..MaxDelta
MaxSample == 2         \* gauge samples are drawn from 1..MaxSample
MaxUnitOps == 4        \* member calls made on the stand-alone objects in one run
MaxSwClock == 3        \* clock readings 0..MaxSwClock seen by the stand-alone Timer
MaxSwCalls == 6        \* start / stop / reset calls made on the stand-alone Timer
MaxBuckets == 2        \* bucket count of the histograms histogram_create is asked for
MaxCalls == 3          \* calls issued in one run of the lock specification

\* ------------------------------------------------------- program constants
DBL_MAX == 1000000     \* stands for std::numeric_limits<double>::max()
DBL_LOWEST == -1000000 \* stands for std::numeric_limits<double>::lowest()

MAX_CT_TIMERS == 2     \* TimerRegistry::MAX_CT_TIMERS, scaled down from 128
MAX_CT_STATS == 3      \* StatsRegistry::MAX_CT_STATS, scaled down from 128

Threads == {"t1", "t2"}
Regs == {"r1", "r2"}
Names == {"a", "b"}
\* The registries are interchangeable, so runs in which a registry is destroyed
\* are taken up to renaming: the one destroyed is r1.
Destroyable == {"r1"}
NoName == ""           \* std::string{} : an unset ct_names_ / ct_stat_names_ cell
NULL == "nullptr"
Free == "free"         \* a std::mutex nobody holds

\* CtSlotID<Hash>::value / CtStatID<Hash>::value: one process-wide index per
\* name, assigned once at static initialisation and the same for every
\* registry instance.
CtSlotID(name) == IF name = "a" THEN 0 ELSE 1
CtStatID(name) == IF name = "a" THEN 0 ELSE 1
SlotIds == {CtSlotID(n) : n \in Names}
StatIds == {CtStatID(n) : n \in Names}

\* --------------------------------------------------------------- fractions
RECURSIVE Gcd(_, _)
Gcd(a, b) == IF b = 0 THEN a ELSE Gcd(b, a % b)
Abs(x) == IF x < 0 THEN -x ELSE x
Norm(n, d) ==
    LET s == IF d < 0 THEN -1 ELSE 1
        g == Gcd(Abs(n), Abs(d))
    IN  IF n = 0 THEN <<0, 1>> ELSE <<(s * n) \div g, (s * d) \div g>>
Frac(i) == <<i, 1>>
\* the four operations; a and b are the operands, each evaluated once
FAdd(x, y) ==
    CHOOSE f \in {Norm(a[1] * b[2] + b[1] * a[2], a[2] * b[2]) : a \in {x}, b \in {y}} : TRUE
FSub(x, y) ==
    CHOOSE f \in {Norm(a[1] * b[2] - b[1] * a[2], a[2] * b[2]) : a \in {x}, b \in {y}} : TRUE
FMul(x, y) ==
    CHOOSE f \in {Norm(a[1] * b[1], a[2] * b[2]) : a \in {x}, b \in {y}} : TRUE
FDiv(x, y) ==
    CHOOSE f \in {Norm(a[1] * b[2], a[2] * b[1]) : a \in {x}, b \in {y}} : TRUE
Min2(x, y) == IF y < x THEN y ELSE x
Max2(x, y) == IF x < y THEN y ELSE x

\* -------------------------------------------------------------- class Timer
NewTimer == [running |-> FALSE, elapsed |-> 0, last_lap |-> 0, start_tp |-> 0]

\* start() that restarts the clock of a running timer
TimerStartRestarts(tm, now) == [tm EXCEPT !.running = TRUE, !.start_tp = now]

\* Timer::start at clock reading now
TimerStart(tm, now) ==
    IF tm.running THEN tm
    ELSE [tm EXCEPT !.running = TRUE, !.start_tp = now]

\* stop() that keeps the last interval only as the accumulated time
TimerStopOverwrites(tm, now) ==
    IF ~tm.running THEN tm
    ELSE [tm EXCEPT !.running = FALSE,
                    !.last_lap = now - tm.start_tp,
                    !.elapsed = now - tm.start_tp]

\* Timer::stop at clock reading now
TimerStop(tm, now) ==
    IF ~tm.running THEN tm
    ELSE [tm EXCEPT !.running = FALSE,
                    !.last_lap = now - tm.start_tp,
                    !.elapsed = tm.elapsed + (now - tm.start_tp)]

\* Timer::reset
TimerReset(tm) == NewTimer

\* Timer::elapsed in nanoseconds at clock reading now
TimerElapsed(tm, now) ==
    IF tm.running THEN tm.elapsed + (now - tm.start_tp) ELSE tm.elapsed

\* --------------------------------------------- TimerStats / GaugeStats
NewStats == [count |-> 0, total |-> 0, min |-> DBL_MAX, max |-> DBL_LOWEST,
             mean |-> Frac(0), M2 |-> Frac(0)]

\* record() that squares the deviation from the old mean
StatsRecordOldMean(s, v) ==
    LET cnt == s.count + 1
        delta == FSub(Frac(v), s.mean)
    IN  [count |-> cnt,
         total |-> s.total + v,
         min |-> Min2(s.min, v),
         max |-> Max2(s.max, v),
         mean |-> FAdd(s.mean, FDiv(delta, Frac(cnt))),
         M2 |-> FAdd(s.M2, FMul(delta, delta))]

\* record() that adds the sample to total and leaves count alone
StatsRecordKeepsCount(s, v) == [s EXCEPT !.total = @ + v]

\* TimerStats::record, GaugeStats::record (Welford)
StatsRecord(s, v) ==
    LET cnt == s.count + 1
        delta == FSub(Frac(v), s.mean)
        mean == FAdd(s.mean, FDiv(delta, Frac(cnt)))
    IN  [count |-> cnt,
         total |-> s.total + v,
         min |-> Min2(s.min, v),
         max |-> Max2(s.max, v),
         mean |-> mean,
         M2 |-> FAdd(s.M2, FMul(delta, FSub(Frac(v), mean)))]

\* TimerStats::variance (the square of stddev()) and sample_variance
Variance(s) == IF s.count < 2 THEN Frac(0) ELSE FDiv(s.M2, Frac(s.count))
SampleVariance(s) == IF s.count < 2 THEN Frac(0) ELSE FDiv(s.M2, Frac(s.count - 1))

\* merge() that adds the two M2 without the between-groups term
StatsMergeNoCross(s, o) ==
    IF o.count = 0 THEN s
    ELSE IF s.count = 0 THEN o
    ELSE LET oc == Frac(o.count)
             combined == FAdd(Frac(s.count), oc)
             delta == FSub(o.mean, s.mean)
         IN  [count |-> s.count + o.count,
              total |-> s.total + o.total,
              min |-> Min2(s.min, o.min),
              max |-> Max2(s.max, o.max),
              mean |-> FAdd(s.mean, FMul(delta, FDiv(oc, combined))),
              M2 |-> FAdd(s.M2, o.M2)]

\* TimerStats::merge (parallel Welford)
StatsMerge(s, o) ==
    IF o.count = 0 THEN s
    ELSE IF s.count = 0 THEN o
    ELSE LET tc == Frac(s.count)
             oc == Frac(o.count)
             combined == FAdd(tc, oc)
             delta == FSub(o.mean, s.mean)
         IN  [count |-> s.count + o.count,
              total |-> s.total + o.total,
              min |-> Min2(s.min, o.min),
              max |-> Max2(s.max, o.max),
              mean |-> FAdd(s.mean, FMul(delta, FDiv(oc, combined))),
              M2 |-> FAdd(s.M2, FAdd(o.M2,
                        FMul(FMul(delta, delta), FDiv(FMul(tc, oc), combined))))]

\* TimerRegistry::Slot
NewSlot == [timer |-> NewTimer, stats |-> NewStats]

\* stop(Slot*) that stops the timer and records no sample
SlotStopNoRecord(slot, now) == [slot EXCEPT !.timer = TimerStop(@, now)]

\* TimerRegistry::stop(Slot*)
SlotStop(slot, now) ==
    LET tm == TimerStop(slot.timer, now)
    IN  [timer |-> tm, stats |-> StatsRecord(slot.stats, tm.last_lap)]

\* ------------------------------------------------------------------- state
VARIABLES
    now,                \* timer_detail::clock::now()
    tstate,             \* per thread: "running", "exiting" (in ~ThreadLocal), "exited"
    tloc,               \* per thread: the thread_local ThreadLocal of thread_local_storage()
    regAlive,           \* per registry: constructed and not yet destroyed
    live_threads_,      \* per registry: keys of TimerRegistry::live_threads_ (tid -> &tloc of tid)
    graveyard_,         \* per registry: TimerRegistry::graveyard_ (name -> TimerStats)
    thread_graveyard_,  \* per registry: TimerRegistry::thread_graveyard_
    known_names_,       \* per registry: TimerRegistry::known_names_
    known_names_order_, \* per registry: TimerRegistry::known_names_order_
    ct_names_,          \* per registry: TimerRegistry::ct_names_
    report,             \* the value the report call that has just returned gave, or NoReport
    dangling,           \* a thread's exit finalizer touched a destroyed registry
    ops,                \* timer calls issued so far
    cycles,             \* [r][t][n]: start<n>/stop<n> pairs completed by t on r
    stops,              \* [r][t][n]: stop calls issued by t on r for n
    startReg,           \* [t][n]: the registry whose start<n> began t's running interval
    wasReset            \* [r][n]: r.reset<n>() has been called

VARIABLES
    pc,                 \* per thread: where it stands in a StatsRegistry call ("idle": in none)
    arg,                \* per thread: the registry, name, argument and locals of that call
    lastError,          \* per thread: the exception its last StatsRegistry call threw, or "none"
    stats_mutex_,       \* per registry: holder of StatsRegistry::stats_mutex_
    ct_counters_,       \* per registry: StatsRegistry::ct_counters_
    ct_counter_active_, \* per registry: StatsRegistry::ct_counter_active_
    ct_gauges_,         \* per registry: StatsRegistry::ct_gauges_ (mtx holder, stats)
    ct_gauge_active_,   \* per registry: StatsRegistry::ct_gauge_active_
    ct_hist_entries_,   \* per registry: StatsRegistry::ct_hist_entries_ (mtx holder, hist, created)
    ct_hist_active_,    \* per registry: StatsRegistry::ct_hist_active_
    ct_stat_names_,     \* per registry: StatsRegistry::ct_stat_names_
    sops,               \* StatsRegistry calls issued so far
    ctrExpect,          \* [r][i]: value of the last counter_set/reset plus incs minus decs since
    gCalls,             \* [r][i]: gauge_record calls issued
    gSum,               \* [r][i]: sum of the values passed to gauge_record
    gWasReset,          \* [r][i]: gauge_reset has been called
    hDone               \* [r][i]: histogram_record calls completed since create / last reset

statsVars == <<pc, arg, lastError, stats_mutex_, ct_counters_, ct_counter_active_,
               ct_gauges_, ct_gauge_active_, ct_hist_entries_, ct_hist_active_,
               ct_stat_names_, sops, ctrExpect, gCalls, gSum, gWasReset, hDone>>

VARIABLES
    accum,              \* two stand-alone TimerStats / GaugeStats objects, A and B
    fed,                \* per object: the values that went into it, in order
    sw,                 \* a stand-alone Timer object
    unitOp,             \* the last member call made on a stand-alone object, and how many
    scoped,             \* per thread: its live CtScopedTimer / CtScopedCounter objects, innermost last
    destroyed,          \* per thread and name: CtScopedTimer objects destroyed so far
    next,               \* the static atomic counters of assign_id and assign_stat_id
    value,              \* CtSlotID<Hash>::value and CtStatID<Hash>::value, per hash
    initPc,             \* per thread: the initialiser it is in, after its fetch_add
    aborted,            \* std::abort() was called
    mutex_,             \* per registry: the thread holding TimerRegistry::mutex_, or Free
    slow                \* per thread: the locked TimerRegistry call it is inside

objVars == <<accum, fed, sw, unitOp>>
scopeVars == <<scoped, destroyed>>
idVars == <<next, value, initPc, aborted>>
lockVars == <<mutex_, slow>>
unitVars == <<objVars, scopeVars, idVars, lockVars>>

timerVars == <<now, tstate, tloc, regAlive, live_threads_, graveyard_, thread_graveyard_,
               known_names_, known_names_order_, ct_names_, dangling, ops, cycles,
               stops, startReg, wasReset>>
regVars == <<regAlive, live_threads_, graveyard_, thread_graveyard_, known_names_,
             known_names_order_, ct_names_>>
ghostVars == <<ops, cycles, stops, startReg, wasReset>>

vars == <<timerVars, statsVars, unitVars, report>>

NoReport == [kind |-> "none"]
NoTid == "no_thread"    \* a default-constructed std::thread::id

\* struct ThreadLocal, value-initialised
NewThreadLocal ==
    [tid |-> NoTid,
     ct_slots |-> [i \in SlotIds |-> NewSlot],
     ct_active |-> [i \in SlotIds |-> FALSE],
     registry |-> NULL]

\* Some enumeration of a finite set (the iteration order of an unordered_map).
RECURSIVE SetToSeq(_)
SetToSeq(S) ==
    IF S = {} THEN <<>>
    ELSE LET x == CHOOSE y \in S : TRUE IN <<x>> \o SetToSeq(S \ {x})


InitTimer ==
    /\ now = 0
    /\ tstate = [t \in Threads |-> "running"]
    /\ tloc = [t \in Threads |-> NewThreadLocal]
    /\ regAlive = [r \in Regs |-> TRUE]
    /\ live_threads_ = [r \in Regs |-> {}]
    /\ graveyard_ = [r \in Regs |-> <<>>]
    /\ thread_graveyard_ = [r \in Regs |-> <<>>]
    /\ known_names_ = [r \in Regs |-> {}]
    /\ known_names_order_ = [r \in Regs |-> <<>>]
    /\ ct_names_ = [r \in Regs |-> [i \in SlotIds |-> NoName]]
    /\ report = NoReport
    /\ dangling = FALSE
    /\ ops = 0
    /\ cycles = [r \in Regs |-> [t \in Threads |-> [n \in Names |-> 0]]]
    /\ stops = [r \in Regs |-> [t \in Threads |-> [n \in Names |-> 0]]]
    /\ startReg = [t \in Threads |-> [n \in Names |-> NULL]]
    /\ wasReset = [r \in Regs |-> [n \in Names |-> FALSE]]

\* -------------------------------------------------------- timer hot path
\* The thread may issue a call on registry r.
CanCall(t, r) ==
    tstate[t] = "running" /\ regAlive[r] /\ ops < MaxOps /\ report = NoReport

\* ct_get_or_create_slot that takes the locked branch on every call
NeedsRegistrationAlways(tl, id) == TRUE

\* ct_get_or_create_slot: whether the locked registration branch is taken
NeedsRegistration(tl, id) == ~tl.ct_active[id]

\* ct_get_or_create_slot: the thread's ThreadLocal after the call
TlocAfterGetOrCreate(tl, t, r, id) ==
    IF NeedsRegistration(tl, id)
    THEN [tl EXCEPT !.tid = IF tl.registry = NULL THEN t ELSE @,
                    !.registry = IF tl.registry = NULL THEN r ELSE @,
                    !.ct_active[id] = TRUE]
    ELSE tl

\* ct_get_or_create_slot: the registry side of the call, under mutex_
CtGetOrCreateSlot(t, r, n) ==
    LET id == CtSlotID(n)
        tl == tloc[t]
    IN  IF NeedsRegistration(tl, id)
        THEN /\ ct_names_' = IF ct_names_[r][id] = NoName
                             THEN [ct_names_ EXCEPT ![r][id] = n]
                             ELSE ct_names_
             /\ known_names_' = IF ct_names_[r][id] = NoName
                                THEN [known_names_ EXCEPT ![r] = @ \cup {n}]
                                ELSE known_names_
             /\ known_names_order_' =
                    IF ct_names_[r][id] = NoName /\ n \notin known_names_[r]
                    THEN [known_names_order_ EXCEPT ![r] = Append(@, n)]
                    ELSE known_names_order_
             /\ live_threads_' = IF tl.registry = NULL
                                 THEN [live_threads_ EXCEPT ![r] = @ \cup {t}]
                                 ELSE live_threads_
        ELSE UNCHANGED <<ct_names_, known_names_, known_names_order_, live_threads_>>

\* TimerRegistry::start<Name>(): the call itself
StartCall(t, r, n) ==
    LET id == CtSlotID(n)
        tl == TlocAfterGetOrCreate(tloc[t], t, r, id)
    IN  /\ CanCall(t, r)
        /\ CtGetOrCreateSlot(t, r, n)
        /\ tloc' = [tloc EXCEPT ![t] =
                      [tl EXCEPT !.ct_slots[id].timer = TimerStart(@, now)]]
        /\ startReg' = IF tloc[t].ct_slots[id].timer.running THEN startReg
                       ELSE [startReg EXCEPT ![t][n] = r]
        /\ ops' = ops + 1
        /\ report' = NoReport
        /\ UNCHANGED <<statsVars, objVars, idVars, lockVars>>
        /\ UNCHANGED <<now, tstate, regAlive, graveyard_, thread_graveyard_, dangling,
                       cycles, stops, wasReset>>

\* TimerRegistry::start<Name>(), the handle it returns being dropped or kept by the caller
Start(t, r, n) == StartCall(t, r, n) /\ UNCHANGED scopeVars

\* TimerRegistry::stop(Slot*) on the calling thread's slot for n, where
\* stopped is the slot as slot->stop() leaves it
StopSlotTo(t, r, n, stopped) ==
    LET id == CtSlotID(n)
        slot == tloc[t].ct_slots[id]
    IN  /\ CanCall(t, r)
        /\ tloc' = [tloc EXCEPT ![t].ct_slots[id] = stopped]
        /\ stops' = [stops EXCEPT ![r][t][n] = @ + 1]
        /\ cycles' = IF slot.timer.running /\ startReg[t][n] = r
                     THEN [cycles EXCEPT ![r][t][n] = @ + 1]
                     ELSE cycles
        /\ startReg' = [startReg EXCEPT ![t][n] = NULL]
        /\ ops' = ops + 1
        /\ report' = NoReport
        /\ UNCHANGED <<statsVars, objVars, idVars, lockVars>>
        /\ UNCHANGED <<now, tstate, regVars, dangling, wasReset>>

\* TimerRegistry::stop(Slot*): slot->stop()
StopSlot(t, r, n) == StopSlotTo(t, r, n, SlotStop(tloc[t].ct_slots[CtSlotID(n)], now))

\* TimerRegistry::stop<Name>(), and stop(Slot*) on the handle start<Name>() returned
Stop(t, r, n) == StopSlot(t, r, n) /\ UNCHANGED scopeVars

\* the steady clock advances
Tick ==
    /\ report = NoReport
    /\ now < MaxClock
    /\ now' = now + 1
    /\ report' = NoReport
    /\ UNCHANGED <<statsVars, unitVars>>
    /\ UNCHANGED <<tstate, tloc, regVars, dangling, ghostVars>>

\* ------------------------------------------------- timer slow path: reset
\* The slot indexes in ascending order (for (i = 0; i < MAX_CT_TIMERS; ++i)),
\* restricted to the indexes that were assigned.
IdSeq == [k \in 1..Cardinality(SlotIds) |-> k - 1]

\* std::unordered_map::operator[] on graveyard_: value-initialises a missing key
GraveyardAt(g, name) == IF name \in DOMAIN g THEN g[name] ELSE NewStats
GraveyardPut(g, name, s) ==
    [x \in DOMAIN g \cup {name} |-> IF x = name THEN s ELSE g[x]]

\* reset<Name>(): what the loop over live_threads_ does to one ThreadLocal
ResetLocal(tl, id) ==
    IF ~tl.ct_active[id] THEN tl
    ELSE [tl EXCEPT !.ct_slots[id] = [timer |-> TimerReset(@.timer), stats |-> NewStats]]

\* TimerRegistry::reset<Name>(): what it does under mutex_
ResetCall(t, r, n) ==
    LET id == CtSlotID(n)
        name == ct_names_[r][id]
    IN  /\ CanCall(t, r)
        /\ tloc' = [x \in Threads |->
                      IF x \in live_threads_[r] THEN ResetLocal(tloc[x], id) ELSE tloc[x]]
        /\ graveyard_' = IF name # NoName /\ name \in DOMAIN graveyard_[r]
                         THEN [graveyard_ EXCEPT ![r] = GraveyardPut(@, name, NewStats)]
                         ELSE graveyard_
        /\ thread_graveyard_' = [thread_graveyard_ EXCEPT ![r] =
                                    SelectSeq(@, LAMBDA row : row.name # name)]
        /\ wasReset' = [wasReset EXCEPT ![r][n] = TRUE]
        /\ startReg' = [x \in Threads |->
                          IF startReg[x][n] = r THEN [startReg[x] EXCEPT ![n] = NULL]
                          ELSE startReg[x]]
        /\ ops' = ops + 1
        /\ report' = NoReport
        /\ UNCHANGED <<statsVars, objVars, scopeVars, idVars>>
        /\ UNCHANGED <<now, tstate, regAlive, live_threads_, known_names_,
                       known_names_order_, ct_names_, dangling, cycles, stops>>

\* TimerRegistry::reset<Name>(), lock to unlock in one step
Reset(t, r, n) == ResetCall(t, r, n) /\ UNCHANGED lockVars

\* ------------------------------------------------------------ thread exit
\* A ThreadStatsRow as ~ThreadLocal pushes it (stddev carried as the variance)
ThreadRow(name, tid, s) ==
    [name |-> name, tid |-> tid, call_count |-> s.count, total |-> s.total,
     mean |-> s.mean, min |-> s.min, max |-> s.max,
     stddev |-> Variance(s), sample_stddev |-> SampleVariance(s)]

\* ~ThreadLocal: the slots its loop does not skip
Durable(tl, i) == tl.ct_active[i] /\ tl.ct_slots[i].stats.count # 0

\* ~ThreadLocal: the rows appended to thread_graveyard_, for i = k..
RECURSIVE ExitRows(_, _, _)
ExitRows(tl, names, k) ==
    IF k > Len(IdSeq) THEN <<>>
    ELSE LET i == IdSeq[k]
         IN  (IF Durable(tl, i)
              THEN <<ThreadRow(names[i], tl.tid, tl.ct_slots[i].stats)>>
              ELSE <<>>) \o ExitRows(tl, names, k + 1)

\* ~ThreadLocal: graveyard_ after the merges, for i = k..
RECURSIVE ExitGraveyard(_, _, _, _)
ExitGraveyard(g, tl, names, k) ==
    IF k > Len(IdSeq) THEN g
    ELSE LET i == IdSeq[k]
             g1 == IF Durable(tl, i)
                   THEN GraveyardPut(g, names[i],
                            StatsMerge(GraveyardAt(g, names[i]), tl.ct_slots[i].stats))
                   ELSE g
         IN  ExitGraveyard(g1, tl, names, k + 1)

\* ~ThreadLocal, first statement: if (registry == nullptr) return;
ThreadExitBegin(t) ==
    /\ report = NoReport
    /\ tstate[t] = "running"
    /\ tstate' = [tstate EXCEPT ![t] = IF tloc[t].registry = NULL THEN "exited"
                                       ELSE "exiting"]
    /\ report' = NoReport
    /\ UNCHANGED <<statsVars, unitVars>>
    /\ UNCHANGED <<now, tloc, regVars, dangling, ghostVars>>

\* ~ThreadLocal, from std::lock_guard lock(registry->mutex_) to the end. A
\* registry destroyed since the null test leaves nothing valid to lock: the
\* finalizer then touches freed memory (dangling).
ThreadExitMerge(t) ==
    LET r == tloc[t].registry
        tl == tloc[t]
    IN  /\ report = NoReport
        /\ tstate[t] = "exiting"
        /\ tstate' = [tstate EXCEPT ![t] = "exited"]
        /\ report' = NoReport
        /\ UNCHANGED <<statsVars, unitVars>>
        /\ IF r = NULL
           THEN /\ dangling' = TRUE
                /\ UNCHANGED <<graveyard_, thread_graveyard_, live_threads_>>
           ELSE /\ graveyard_' = [graveyard_ EXCEPT ![r] =
                                     ExitGraveyard(@, tl, ct_names_[r], 1)]
                /\ thread_graveyard_' = [thread_graveyard_ EXCEPT ![r] =
                                            @ \o ExitRows(tl, ct_names_[r], 1)]
                /\ live_threads_' = [live_threads_ EXCEPT ![r] = @ \ {tl.tid}]
                /\ UNCHANGED dangling
        /\ UNCHANGED <<now, tloc, regAlive, known_names_, known_names_order_, ct_names_,
                       ghostVars>>

\* ~TimerRegistry: every registered ThreadLocal loses its back-pointer; the
\* members are destroyed with the object.
DestroyRegistry(r) ==
    /\ report = NoReport
    /\ r \in Destroyable
    /\ regAlive[r]
    /\ regAlive' = [regAlive EXCEPT ![r] = FALSE]
    /\ tloc' = [x \in Threads |->
                  IF x \in live_threads_[r] THEN [tloc[x] EXCEPT !.registry = NULL]
                  ELSE tloc[x]]
    /\ live_threads_' = [live_threads_ EXCEPT ![r] = {}]
    /\ graveyard_' = [graveyard_ EXCEPT ![r] = <<>>]
    /\ thread_graveyard_' = [thread_graveyard_ EXCEPT ![r] = <<>>]
    /\ known_names_' = [known_names_ EXCEPT ![r] = {}]
    /\ known_names_order_' = [known_names_order_ EXCEPT ![r] = <<>>]
    /\ ct_names_' = [ct_names_ EXCEPT ![r] = [i \in SlotIds |-> NoName]]
    /\ report' = NoReport
    /\ UNCHANGED <<statsVars, unitVars>>
    /\ UNCHANGED <<now, tstate, dangling, ghostVars>>

\* ---------------------------------------------------------------- reports
\* What a reporter reads from the live slot tables: view[t][i] is the
\* TimerStats it sees in thread t's slot i.
LiveView == [t \in Threads |-> [i \in SlotIds |-> tloc[t].ct_slots[i].stats]]

\* get_stats_report: the TimerStats rebuilt from a thread_graveyard_ row
\* (M2 = stddev^2 * count)
StatsOfRow(row) ==
    [count |-> row.call_count, total |-> row.total, min |-> row.min, max |-> row.max,
     mean |-> row.mean, M2 |-> FMul(row.stddev, Frac(row.call_count))]

\* get_stats_report: the loop over thread_graveyard_ for one name
RECURSIVE MergeGraveRows(_, _, _)
MergeGraveRows(rows, name, acc) ==
    IF rows = <<>> THEN acc
    ELSE MergeGraveRows(Tail(rows), name,
            IF Head(rows).name # name THEN acc
            ELSE [merged |-> StatsMerge(acc.merged, StatsOfRow(Head(rows))),
                  thread_count |-> acc.thread_count + 1])

\* The (tid, i) pairs in the order the nested loops over live_threads_ and
\* 0..MAX_CT_TIMERS-1 visit them.
RECURSIVE LivePairs(_)
LivePairs(ts) ==
    IF ts = <<>> THEN <<>>
    ELSE [k \in 1..Len(IdSeq) |-> <<Head(ts), IdSeq[k]>>] \o LivePairs(Tail(ts))

\* get_stats_report: the loop over live_threads_ for one name
RECURSIVE MergeLive(_, _, _, _, _)
MergeLive(pairs, r, name, view, acc) ==
    IF pairs = <<>> THEN acc
    ELSE LET t == Head(pairs)[1]
             i == Head(pairs)[2]
             skip == ~tloc[t].ct_active[i] \/ ct_names_[r][i] # name
         IN  MergeLive(Tail(pairs), r, name, view,
                IF skip \/ ~(view[t][i].count > 0) THEN acc
                ELSE [merged |-> StatsMerge(acc.merged, view[t][i]),
                      thread_count |-> acc.thread_count + 1])

\* One StatsRow (Duration = nanoseconds, so ns_to is the identity)
StatsRow(name, acc) ==
    [name |-> name, thread_count |-> acc.thread_count, call_count |-> acc.merged.count,
     total |-> acc.merged.total,
     mean |-> IF acc.merged.count = 0 THEN Frac(0) ELSE acc.merged.mean,
     min |-> IF acc.merged.count = 0 THEN 0 ELSE acc.merged.min,
     max |-> IF acc.merged.count = 0 THEN 0 ELSE acc.merged.max,
     stddev |-> Variance(acc.merged), sample_stddev |-> SampleVariance(acc.merged)]

\* get_stats_report: the rows for known_names_order_[k..]
RECURSIVE get_stats_report(_, _, _)
get_stats_report(r, view, k) ==
    IF k > Len(known_names_order_[r]) THEN <<>>
    ELSE LET name == known_names_order_[r][k]
             acc0 == [merged |-> NewStats, thread_count |-> 0]
             acc1 == MergeGraveRows(thread_graveyard_[r], name, acc0)
             acc2 == MergeLive(LivePairs(SetToSeq(live_threads_[r])), r, name, view, acc1)
         IN  (IF acc2.merged.count = 0 THEN <<>> ELSE <<StatsRow(name, acc2)>>)
             \o get_stats_report(r, view, k + 1)

\* get_stats_report_per_thread: the rows pushed for live threads
RECURSIVE LiveThreadRows(_, _, _)
LiveThreadRows(pairs, r, view) ==
    IF pairs = <<>> THEN <<>>
    ELSE LET t == Head(pairs)[1]
             i == Head(pairs)[2]
         IN  (IF ~tloc[t].ct_active[i] \/ view[t][i].count = 0 THEN <<>>
              ELSE <<ThreadRow(ct_names_[r][i], t, view[t][i])>>)
             \o LiveThreadRows(Tail(pairs), r, view)

\* get_stats_report_per_thread
get_stats_report_per_thread(r, view) ==
    thread_graveyard_[r] \o LiveThreadRows(LivePairs(SetToSeq(live_threads_[r])), r, view)

\* get_stats_report(): what it does under mutex_
GetStatsReportCall(r) ==
    /\ report = NoReport
    /\ regAlive[r]
    /\ report' = [kind |-> "stats", reg |-> r, rows |-> get_stats_report(r, LiveView, 1)]
    /\ UNCHANGED <<timerVars, statsVars, objVars, scopeVars, idVars>>

\* a call of get_stats_report() returns
GetStatsReport(r) == GetStatsReportCall(r) /\ UNCHANGED lockVars

\* a call of get_stats_report_per_thread() returns
GetStatsReportPerThread(r) ==
    /\ report = NoReport
    /\ regAlive[r]
    /\ report' = [kind |-> "per_thread", reg |-> r,
                  rows |-> get_stats_report_per_thread(r, LiveView)]
    /\ UNCHANGED <<timerVars, statsVars, unitVars>>

\* the caller has looked at the rows it was given
ReportSeen ==
    /\ report # NoReport
    /\ report' = NoReport
    /\ UNCHANGED <<timerVars, statsVars, unitVars>>

NextTimer ==
    \/ \E t \in Threads, r \in Regs, n \in Names : Start(t, r, n)
    \/ \E t \in Threads, r \in Regs, n \in Names : Stop(t, r, n)
    \/ \E t \in Threads, r \in Regs, n \in Names : Reset(t, r, n)
    \/ \E t \in Threads : ThreadExitBegin(t)
    \/ \E t \in Threads : ThreadExitMerge(t)
    \/ \E r \in Regs : DestroyRegistry(r)
    \/ \E r \in Regs : GetStatsReport(r)
    \/ \E r \in Regs : GetStatsReportPerThread(r)
    \/ ReportSeen
    \/ Tick


\* The same operations with every call made on the one registry r1.
NextTimerOneReg ==
    \/ \E t \in Threads, n \in Names : Start(t, "r1", n)
    \/ \E t \in Threads, n \in Names : Stop(t, "r1", n)
    \/ \E t \in Threads, n \in Names : Reset(t, "r1", n)
    \/ \E t \in Threads : ThreadExitBegin(t)
    \/ \E t \in Threads : ThreadExitMerge(t)
    \/ DestroyRegistry("r1")
    \/ GetStatsReport("r1")
    \/ GetStatsReportPerThread("r1")
    \/ ReportSeen
    \/ Tick

\* ======================================================== StatsRegistry
\* class StatsRegistry : public TimerRegistry -- the registries are StatsRegistry
\* objects, each with its TimerRegistry part and its own stats storage
StatRegs == Regs
StatIdSeq == [k \in 1..Cardinality(StatIds) |-> k - 1]

\* GaugeStats{} / Histogram(low, high, n) / the array elements as constructed
NewGaugeEntry == [mtx |-> Free, stats |-> NewStats]
NewHistogram(low, high, n) ==
    [low |-> low, high |-> high, buckets |-> [k \in 1..n |-> 0],
     underflow |-> 0, overflow |-> 0, total |-> 0]
\* CtHistEntry: hist{0.0, 1.0, 1} (bounds in halves), created{false}
NewHistEntry == [mtx |-> Free, hist |-> NewHistogram(0, 2, 1), created |-> FALSE]

NoArg == [op |-> "none", r |-> NULL, n |-> NoName, v |-> 0, loc |-> <<>>]

\* A StatsRegistry as constructed, but for the histogram slots given.
StatsWith(entries, active, names) ==
    /\ pc = [t \in Threads |-> "idle"]
    /\ arg = [t \in Threads |-> NoArg]
    /\ lastError = [t \in Threads |-> "none"]
    /\ stats_mutex_ = [r \in StatRegs |-> Free]
    /\ ct_counters_ = [r \in StatRegs |-> [i \in StatIds |-> 0]]
    /\ ct_counter_active_ = [r \in StatRegs |-> [i \in StatIds |-> FALSE]]
    /\ ct_gauges_ = [r \in StatRegs |-> [i \in StatIds |-> NewGaugeEntry]]
    /\ ct_gauge_active_ = [r \in StatRegs |-> [i \in StatIds |-> FALSE]]
    /\ ct_hist_entries_ = entries
    /\ ct_hist_active_ = active
    /\ ct_stat_names_ = names
    /\ sops = 0
    /\ ctrExpect = [r \in StatRegs |-> [i \in StatIds |->
                      [base |-> 0, incs |-> [t \in Threads |-> 0],
                       decs |-> [t \in Threads |-> 0]]]]
    /\ gCalls = [r \in StatRegs |-> [i \in StatIds |-> [t \in Threads |-> 0]]]
    /\ gSum = [r \in StatRegs |-> [i \in StatIds |-> 0]]
    /\ gWasReset = [r \in StatRegs |-> [i \in StatIds |-> FALSE]]
    /\ hDone = [r \in StatRegs |-> [i \in StatIds |-> 0]]

InitStats ==
    StatsWith([r \in StatRegs |-> [i \in StatIds |-> NewHistEntry]],
              [r \in StatRegs |-> [i \in StatIds |-> FALSE]],
              [r \in StatRegs |-> [i \in StatIds |-> NoName]])

\* --------------------------------------------------- name -> slot id
\* the names the program uses, more of them than either limit
ProgramNames == {"a", "b", "c", "d"}
\* hash_name: the FNV-1a 64-bit hash of each of these names, in hexadecimal
hash_name(n) ==
    CASE n = "a" -> "af63dc4c8601ec8c"
      [] n = "b" -> "af63df4c8601f1a5"
      [] n = "c" -> "af63de4c8601eff2"
      [] n = "d" -> "af63d94c8601e773"
Hashes == {hash_name(n) : n \in ProgramNames}
\* "timer": CtSlotID / assign_id; "stat": CtStatID / assign_stat_id
Kinds == {"timer", "stat"}
MaxSlots(k) == IF k = "timer" THEN MAX_CT_TIMERS ELSE MAX_CT_STATS
NoSlow == [op |-> "none", r |-> NULL, n |-> NoName, at |-> 0]
Unassigned == -1       \* a ::value whose initialiser has not run
NoInit == [k |-> "none", h |-> "", idx |-> 0]

\* the stand-alone objects as constructed
InitUnit ==
    /\ accum = [x \in {"A", "B"} |-> NewStats]
    /\ fed = [x \in {"A", "B"} |-> <<>>]
    /\ sw = NewTimer
    /\ unitOp = [op |-> "none", n |-> 0, noops |-> {}, calls |-> <<>>]
    /\ scoped = [t \in Threads |-> <<>>]
    /\ destroyed = [t \in Threads |-> [n \in Names |-> 0]]
    /\ next = [k \in Kinds |-> 0]
    /\ value = [k \in Kinds |-> [h \in Hashes |-> Unassigned]]
    /\ initPc = [t \in Threads |-> NoInit]
    /\ aborted = FALSE
    /\ mutex_ = [r \in Regs |-> Free]
    /\ slow = [t \in Threads |-> NoSlow]

Init == InitTimer /\ InitStats /\ InitUnit

SpecTimer == Init /\ [][NextTimer]_vars
SpecTimerOneReg == Init /\ [][NextTimerOneReg]_vars

\* The thread is in no StatsRegistry call and may issue one.
CanCallStats(t) ==
    tstate[t] = "running" /\ pc[t] = "idle" /\ sops < MaxStatOps /\ report = NoReport
\* The thread is inside a call, at the given step.
At(t, step) == pc[t] = step /\ report = NoReport
\* the call returns
Return(t) == /\ pc' = [pc EXCEPT ![t] = "idle"]
             /\ arg' = [arg EXCEPT ![t] = NoArg]
\* a call that is one indivisible step is issued and returns
Done(t) == /\ sops' = sops + 1
           /\ lastError' = [lastError EXCEPT ![t] = "none"]
           /\ UNCHANGED <<pc, arg>>
\* the call op(v) on name n of registry r is issued and continues at the given step
Enter(t, op, step, r, n, v, loc) ==
    /\ pc' = [pc EXCEPT ![t] = step]
    /\ arg' = [arg EXCEPT ![t] = [op |-> op, r |-> r, n |-> n, v |-> v, loc |-> loc]]
    /\ sops' = sops + 1
    /\ lastError' = [lastError EXCEPT ![t] = "none"]

\* ct_ensure_*_name that stores the name in the slot of every registry
EnsureNameEveryRegistry(names, r, n) ==
    [q \in StatRegs |->
        [names[q] EXCEPT ![CtStatID(n)] = IF @ = NoName THEN n ELSE @]]

\* ct_ensure_*_name under stats_mutex_: the name is stored if the slot has none
EnsureName(names, r, n) ==
    IF names[r][CtStatID(n)] = NoName THEN [names EXCEPT ![r][CtStatID(n)] = n]
    ELSE names

\* ------------------------------------------------------------- counters
\* fetch_add that stores the delta instead of adding it
FetchAddStores(c, d) == d

\* fetch_sub that takes the delta off twice
FetchSubTwice(c, d) == c - d - d

\* std::atomic<int64_t>::fetch_add / fetch_sub: one indivisible read-modify-write
FetchAdd(c, d) == c + d
FetchSub(c, d) == c - d

counterVars == <<ct_counters_, ct_counter_active_, ctrExpect>>
gaugeVars == <<ct_gauges_, ct_gauge_active_, gCalls, gSum, gWasReset>>
histVars == <<ct_hist_entries_, ct_hist_active_, hDone>>

\* ct_ensure_counter_name returns: to the caller of counter_inc / counter_dec,
\* or into the constructor of CtScopedCounter, which goes on to its fetch_add
EnsureReturn(t) ==
    IF arg[t].op = "make_scoped_counter"
    THEN pc' = [pc EXCEPT ![t] = "scoped_add"] /\ UNCHANGED arg
    ELSE Return(t)

\* counter_inc<Name>(delta): the fetch_add, then ct_ensure_counter_name
CounterInc(t, r, n, d) ==
    /\ CanCallStats(t)
    /\ ct_counters_' = [ct_counters_ EXCEPT ![r][CtStatID(n)] = FetchAdd(@, d)]
    /\ ctrExpect' = [ctrExpect EXCEPT ![r][CtStatID(n)].incs[t] = @ + d]
    /\ Enter(t, "counter_inc", "ensure_counter", r, n, d, <<>>)
    /\ report' = NoReport
    /\ UNCHANGED <<timerVars, unitVars, stats_mutex_, ct_counter_active_, gaugeVars, histVars,
                   ct_stat_names_>>

\* counter_dec<Name>(delta): the fetch_sub, then ct_ensure_counter_name
CounterDec(t, r, n, d) ==
    /\ CanCallStats(t)
    /\ ct_counters_' = [ct_counters_ EXCEPT ![r][CtStatID(n)] = FetchSub(@, d)]
    /\ ctrExpect' = [ctrExpect EXCEPT ![r][CtStatID(n)].decs[t] = @ + d]
    /\ Enter(t, "counter_dec", "ensure_counter", r, n, d, <<>>)
    /\ report' = NoReport
    /\ UNCHANGED <<timerVars, unitVars, stats_mutex_, ct_counter_active_, gaugeVars, histVars,
                   ct_stat_names_>>

\* ct_ensure_counter_name: the unlocked test of ct_counter_active_[id]
EnsureCounterCheck(t) ==
    /\ At(t, "ensure_counter")
    /\ IF ct_counter_active_[arg[t].r][CtStatID(arg[t].n)]
       THEN EnsureReturn(t)
       ELSE pc' = [pc EXCEPT ![t] = "ensure_counter_locked"] /\ UNCHANGED arg
    /\ report' = NoReport
    /\ UNCHANGED <<timerVars, unitVars, lastError, stats_mutex_, counterVars, gaugeVars, histVars,
                   ct_stat_names_, sops>>

\* ct_ensure_counter_name that marks the histogram slot active as well
EnsureCounterLockedMarksHist(t) ==
    LET r == arg[t].r
        id == CtStatID(arg[t].n)
    IN  /\ At(t, "ensure_counter_locked")
        /\ stats_mutex_[r] = Free
        /\ IF ~ct_counter_active_[r][id]
           THEN /\ ct_stat_names_' = EnsureName(ct_stat_names_, r, arg[t].n)
                /\ ct_counter_active_' = [ct_counter_active_ EXCEPT ![r][id] = TRUE]
                /\ ct_hist_active_' = [ct_hist_active_ EXCEPT ![r][id] = TRUE]
           ELSE UNCHANGED <<ct_stat_names_, ct_counter_active_, ct_hist_active_>>
        /\ EnsureReturn(t)
        /\ report' = NoReport
        /\ UNCHANGED <<timerVars, unitVars, lastError, stats_mutex_, ct_counters_, ctrExpect,
                       gaugeVars, ct_hist_entries_, hDone, sops>>

\* ct_ensure_counter_name: the part under stats_mutex_
EnsureCounterLocked(t) ==
    LET r == arg[t].r
        id == CtStatID(arg[t].n)
    IN  /\ At(t, "ensure_counter_locked")
        /\ stats_mutex_[r] = Free
        /\ IF ~ct_counter_active_[r][id]
           THEN /\ ct_stat_names_' = EnsureName(ct_stat_names_, r, arg[t].n)
                /\ ct_counter_active_' = [ct_counter_active_ EXCEPT ![r][id] = TRUE]
           ELSE UNCHANGED <<ct_stat_names_, ct_counter_active_>>
        /\ EnsureReturn(t)
        /\ report' = NoReport
        /\ UNCHANGED <<timerVars, unitVars, lastError, stats_mutex_, ct_counters_, ctrExpect,
                       gaugeVars, histVars, sops>>

\* counter_set<Name>(value): one atomic store
CounterSet(t, r, n, v) ==
    /\ CanCallStats(t)
    /\ ct_counters_' = [ct_counters_ EXCEPT ![r][CtStatID(n)] = v]
    /\ ctrExpect' = [ctrExpect EXCEPT ![r][CtStatID(n)] =
                       [base |-> v, incs |-> [u \in Threads |-> 0],
                        decs |-> [u \in Threads |-> 0]]]
    /\ Done(t)
    /\ report' = NoReport
    /\ UNCHANGED <<timerVars, unitVars, stats_mutex_, ct_counter_active_, gaugeVars,
                   histVars, ct_stat_names_>>

\* counter_reset<Name>(): store 0
CounterReset(t, r, n) ==
    /\ CanCallStats(t)
    /\ ct_counters_' = [ct_counters_ EXCEPT ![r][CtStatID(n)] = 0]
    /\ ctrExpect' = [ctrExpect EXCEPT ![r][CtStatID(n)] =
                       [base |-> 0, incs |-> [u \in Threads |-> 0],
                        decs |-> [u \in Threads |-> 0]]]
    /\ Done(t)
    /\ report' = NoReport
    /\ UNCHANGED <<timerVars, unitVars, stats_mutex_, ct_counter_active_, gaugeVars,
                   histVars, ct_stat_names_>>

\* counter_get<Name>(): one atomic load, handed to the caller
CounterGet(t, r, n) ==
    /\ CanCallStats(t)
    /\ Done(t)
    /\ report' = [kind |-> "counter_get", reg |-> r, name |-> n,
                  value |-> ct_counters_[r][CtStatID(n)]]
    /\ UNCHANGED <<timerVars, unitVars, stats_mutex_, counterVars, gaugeVars, histVars,
                   ct_stat_names_>>

\* get_counter_report(): takes stats_mutex_
CounterReportBegin(t, r) ==
    /\ CanCallStats(t)
    /\ stats_mutex_[r] = Free
    /\ stats_mutex_' = [stats_mutex_ EXCEPT ![r] = t]
    /\ Enter(t, "get_counter_report", "counter_report", r, NoName, 1, <<>>)
    /\ report' = NoReport
    /\ UNCHANGED <<timerVars, unitVars, counterVars, gaugeVars, histVars, ct_stat_names_>>

\* what one iteration of the loop of get_counter_report() adds to the result
CounterReportRows(rows, r, i) ==
    IF ~ct_counter_active_[r][i] THEN rows
    ELSE Append(rows, [name |-> ct_stat_names_[r][i], value |-> ct_counters_[r][i]])

\* get_counter_report(): one iteration; after the last one the lock is dropped
\* and the rows are returned
CounterReportStep(t) ==
    LET r == arg[t].r
        k == arg[t].v
        rows == CounterReportRows(arg[t].loc, r, StatIdSeq[k])
    IN  /\ At(t, "counter_report")
        /\ IF k < Len(StatIdSeq)
           THEN /\ arg' = [arg EXCEPT ![t].v = k + 1, ![t].loc = rows]
                /\ report' = NoReport
                /\ UNCHANGED <<pc, stats_mutex_>>
           ELSE /\ Return(t)
                /\ stats_mutex_' = [stats_mutex_ EXCEPT ![r] = Free]
                /\ report' = [kind |-> "counter", reg |-> r, rows |-> rows]
        /\ UNCHANGED <<timerVars, unitVars, lastError, counterVars, gaugeVars, histVars,
                       ct_stat_names_, sops>>

\* ---------------------------------------------------------------- gauges
\* a per-slot mutex that never blocks
MutexNeverHeld(m) == TRUE

\* std::lock_guard on a per-slot mutex can be taken when nobody holds it
MutexFree(m) == m = Free

\* a report loop that takes the mutex of every slot
LocksSlotAlways(active) == TRUE

\* get_gauge_report / get_histogram_report: the loop skips a slot whose active
\* flag is unset before it reaches std::lock_guard glock(entry.mtx)
LocksSlot(active) == active

\* gauge_record<Name>(value): the call is issued
GaugeRecord(t, r, n, v) ==
    /\ CanCallStats(t)
    /\ Enter(t, "gauge_record", "gauge_lock", r, n, v, <<>>)
    /\ gCalls' = [gCalls EXCEPT ![r][CtStatID(n)][t] = @ + 1]
    /\ gSum' = [gSum EXCEPT ![r][CtStatID(n)] = @ + v]
    /\ report' = NoReport
    /\ UNCHANGED <<timerVars, unitVars, stats_mutex_, counterVars, ct_gauges_, ct_gauge_active_,
                   gWasReset, histVars, ct_stat_names_>>

\* gauge_record: entry.mtx is taken and record() reads the accumulator
GaugeRecordLock(t) ==
    LET r == arg[t].r
        id == CtStatID(arg[t].n)
    IN  /\ At(t, "gauge_lock")
        /\ MutexFree(ct_gauges_[r][id].mtx)
        /\ ct_gauges_' = [ct_gauges_ EXCEPT ![r][id].mtx = t]
        /\ pc' = [pc EXCEPT ![t] = "gauge_write"]
        /\ arg' = [arg EXCEPT ![t].loc = ct_gauges_[r][id].stats]
        /\ report' = NoReport
        /\ UNCHANGED <<timerVars, unitVars, lastError, stats_mutex_, counterVars, ct_gauge_active_,
                       gCalls, gSum, gWasReset, histVars, ct_stat_names_, sops>>

\* gauge_record: record() writes the accumulator back; ct_ensure_gauge_name tests
\* ct_gauge_active_[id] and, if it is set, the call returns and drops entry.mtx
GaugeRecordWrite(t) ==
    LET r == arg[t].r
        id == CtStatID(arg[t].n)
        active == ct_gauge_active_[r][id]
    IN  /\ At(t, "gauge_write")
        /\ ct_gauges_' = [ct_gauges_ EXCEPT
                            ![r][id].stats = StatsRecord(arg[t].loc, arg[t].v),
                            ![r][id].mtx = IF active THEN Free ELSE @]
        /\ IF active THEN Return(t)
           ELSE pc' = [pc EXCEPT ![t] = "ensure_gauge_locked"] /\ UNCHANGED arg
        /\ report' = NoReport
        /\ UNCHANGED <<timerVars, unitVars, lastError, stats_mutex_, counterVars, ct_gauge_active_,
                       gCalls, gSum, gWasReset, histVars, ct_stat_names_, sops>>

\* ct_ensure_gauge_name under stats_mutex_ (entry.mtx still held), then the
\* call returns and drops entry.mtx
EnsureGaugeLocked(t) ==
    LET r == arg[t].r
        id == CtStatID(arg[t].n)
    IN  /\ At(t, "ensure_gauge_locked")
        /\ stats_mutex_[r] = Free
        /\ IF ~ct_gauge_active_[r][id]
           THEN /\ ct_stat_names_' = EnsureName(ct_stat_names_, r, arg[t].n)
                /\ ct_gauge_active_' = [ct_gauge_active_ EXCEPT ![r][id] = TRUE]
           ELSE UNCHANGED <<ct_stat_names_, ct_gauge_active_>>
        /\ ct_gauges_' = [ct_gauges_ EXCEPT ![r][id].mtx = Free]
        /\ Return(t)
        /\ report' = NoReport
        /\ UNCHANGED <<timerVars, unitVars, lastError, stats_mutex_, counterVars, gCalls, gSum,
                       gWasReset, histVars, sops>>

\* gauge_reset<Name>(): under entry.mtx
GaugeReset(t, r, n) ==
    LET id == CtStatID(n)
    IN  /\ CanCallStats(t)
        /\ MutexFree(ct_gauges_[r][id].mtx)
        /\ ct_gauges_' = [ct_gauges_ EXCEPT ![r][id].stats = NewStats]
        /\ gWasReset' = [gWasReset EXCEPT ![r][id] = TRUE]
        /\ Done(t)
        /\ report' = NoReport
        /\ UNCHANGED <<timerVars, unitVars, stats_mutex_, counterVars, ct_gauge_active_,
                       gCalls, gSum, histVars, ct_stat_names_>>

\* get_gauge_report(): takes stats_mutex_
GaugeReportBegin(t, r) ==
    /\ CanCallStats(t)
    /\ stats_mutex_[r] = Free
    /\ stats_mutex_' = [stats_mutex_ EXCEPT ![r] = t]
    /\ Enter(t, "get_gauge_report", "gauge_report", r, NoName, 1, <<>>)
    /\ report' = NoReport
    /\ UNCHANGED <<timerVars, unitVars, counterVars, gaugeVars, histVars, ct_stat_names_>>

GaugeRow(name, s) ==
    [name |-> name, count |-> s.count, total |-> s.total, mean |-> s.mean,
     min |-> s.min, max |-> s.max, variance |-> Variance(s),
     sample_variance |-> SampleVariance(s)]

\* what one iteration of the loop of get_gauge_report() adds to the result
GaugeReportRows(rows, r, i) ==
    IF ~ct_gauge_active_[r][i] \/ ct_gauges_[r][i].stats.count = 0 THEN rows
    ELSE Append(rows, GaugeRow(ct_stat_names_[r][i], ct_gauges_[r][i].stats))

\* get_gauge_report(): one iteration, which takes the mutex of an active slot
GaugeReportStep(t) ==
    LET r == arg[t].r
        k == arg[t].v
        i == StatIdSeq[k]
        rows == GaugeReportRows(arg[t].loc, r, i)
    IN  /\ At(t, "gauge_report")
        /\ LocksSlot(ct_gauge_active_[r][i]) => MutexFree(ct_gauges_[r][i].mtx)
        /\ IF k < Len(StatIdSeq)
           THEN /\ arg' = [arg EXCEPT ![t].v = k + 1, ![t].loc = rows]
                /\ report' = NoReport
                /\ UNCHANGED <<pc, stats_mutex_>>
           ELSE /\ Return(t)
                /\ stats_mutex_' = [stats_mutex_ EXCEPT ![r] = Free]
                /\ report' = [kind |-> "gauge", reg |-> r, rows |-> rows]
        /\ UNCHANGED <<timerVars, unitVars, lastError, counterVars, gaugeVars, histVars,
                       ct_stat_names_, sops>>

\* ------------------------------------------------------------ histograms
\* Bounds and values of histograms are carried in halves (1.0 is 2).
\* Histogram::record: the bucket of an in-range value,
\* static_cast<size_t>((val - low) / width), clamped to the last bucket
BucketIndex(h, v) ==
    LET n == Len(h.buckets)
        width == FDiv(Frac(h.high - h.low), Frac(n))
        q == FDiv(Frac(v - h.low), width)
        idx == q[1] \div q[2]
    IN  IF idx >= n THEN n - 1 ELSE idx

\* Histogram::record that takes a value equal to high as in range
HistogramRecordHighInRange(h, v) ==
    LET counted == [h EXCEPT !.total = @ + 1]
    IN  IF v < h.low THEN [counted EXCEPT !.underflow = @ + 1]
        ELSE IF v > h.high THEN [counted EXCEPT !.overflow = @ + 1]
        ELSE [counted EXCEPT !.buckets[BucketIndex(h, v) + 1] = @ + 1]

\* Histogram::record
HistogramRecord(h, v) ==
    LET counted == [h EXCEPT !.total = @ + 1]
    IN  IF v < h.low THEN [counted EXCEPT !.underflow = @ + 1]
        ELSE IF v >= h.high THEN [counted EXCEPT !.overflow = @ + 1]
        ELSE [counted EXCEPT !.buckets[BucketIndex(h, v) + 1] = @ + 1]

\* Histogram::reset that leaves underflow as it was
HistogramResetKeepsUnderflow(h) ==
    [h EXCEPT !.buckets = [k \in DOMAIN h.buckets |-> 0], !.overflow = 0, !.total = 0]

\* Histogram::reset
HistogramReset(h) ==
    [h EXCEPT !.buckets = [k \in DOMAIN h.buckets |-> 0],
              !.underflow = 0, !.overflow = 0, !.total = 0]

\* argument checks that let low == high through
CreateArgsValidLax(low, high, n_buckets) == ~(low > high) /\ ~(n_buckets = 0)

\* histogram_create: the argument checks made before the entry is touched
CreateArgsValid(low, high, n_buckets) == ~(low >= high) /\ ~(n_buckets = 0)

\* histogram_create<Name>(low, high, n_buckets): the call is issued
HistogramCreate(t, r, n, low, high, nb) ==
    /\ CanCallStats(t)
    /\ Enter(t, "histogram_create", "hist_create_check", r, n, 0, <<low, high, nb>>)
    /\ report' = NoReport
    /\ UNCHANGED <<timerVars, unitVars, stats_mutex_, counterVars, gaugeVars, histVars,
                   ct_stat_names_>>

\* histogram_create: the two argument checks, which throw std::invalid_argument
HistogramCreateCheck(t) ==
    /\ At(t, "hist_create_check")
    /\ IF CreateArgsValid(arg[t].loc[1], arg[t].loc[2], arg[t].loc[3])
       THEN /\ pc' = [pc EXCEPT ![t] = "hist_create_lock"]
            /\ UNCHANGED <<arg, lastError>>
       ELSE /\ lastError' = [lastError EXCEPT ![t] = "invalid_argument"]
            /\ Return(t)
    /\ report' = NoReport
    /\ UNCHANGED <<timerVars, unitVars, stats_mutex_, counterVars, gaugeVars, histVars,
                   ct_stat_names_, sops>>

\* histogram_create: under entry.mtx, throws if created, else installs the
\* histogram; ct_ensure_hist_name then tests ct_hist_active_[id]
HistogramCreateLock(t) ==
    LET r == arg[t].r
        id == CtStatID(arg[t].n)
        entry == ct_hist_entries_[r][id]
        active == ct_hist_active_[r][id]
    IN  /\ At(t, "hist_create_lock")
        /\ MutexFree(entry.mtx)
        /\ IF entry.created
           THEN /\ lastError' = [lastError EXCEPT ![t] = "runtime_error"]
                /\ Return(t)
                /\ UNCHANGED <<ct_hist_entries_, hDone>>
           ELSE /\ ct_hist_entries_' = [ct_hist_entries_ EXCEPT ![r][id] =
                      [mtx |-> IF active THEN Free ELSE t,
                       hist |-> NewHistogram(arg[t].loc[1], arg[t].loc[2], arg[t].loc[3]),
                       created |-> TRUE]]
                /\ hDone' = [hDone EXCEPT ![r][id] = 0]
                /\ IF active THEN Return(t)
                   ELSE pc' = [pc EXCEPT ![t] = "ensure_hist_locked"] /\ UNCHANGED arg
                /\ UNCHANGED lastError
        /\ report' = NoReport
        /\ UNCHANGED <<timerVars, unitVars, stats_mutex_, counterVars, gaugeVars, ct_hist_active_,
                       ct_stat_names_, sops>>

\* ct_ensure_hist_name under stats_mutex_ (entry.mtx still held), then the
\* call returns and drops entry.mtx
EnsureHistLocked(t) ==
    LET r == arg[t].r
        id == CtStatID(arg[t].n)
    IN  /\ At(t, "ensure_hist_locked")
        /\ stats_mutex_[r] = Free
        /\ IF ~ct_hist_active_[r][id]
           THEN /\ ct_stat_names_' = EnsureName(ct_stat_names_, r, arg[t].n)
                /\ ct_hist_active_' = [ct_hist_active_ EXCEPT ![r][id] = TRUE]
           ELSE UNCHANGED <<ct_stat_names_, ct_hist_active_>>
        /\ ct_hist_entries_' = [ct_hist_entries_ EXCEPT ![r][id].mtx = Free]
        /\ Return(t)
        /\ report' = NoReport
        /\ UNCHANGED <<timerVars, unitVars, lastError, stats_mutex_, counterVars, gaugeVars, hDone,
                       sops>>

\* histogram_record<Name>(val): the call is issued
HistogramRecordCall(t, r, n, v) ==
    /\ CanCallStats(t)
    /\ Enter(t, "histogram_record", "hist_lock", r, n, v, <<>>)
    /\ report' = NoReport
    /\ UNCHANGED <<timerVars, unitVars, stats_mutex_, counterVars, gaugeVars, histVars,
                   ct_stat_names_>>

\* histogram_record: entry.mtx is taken and record() reads the histogram
HistogramRecordLock(t) ==
    LET r == arg[t].r
        id == CtStatID(arg[t].n)
    IN  /\ At(t, "hist_lock")
        /\ MutexFree(ct_hist_entries_[r][id].mtx)
        /\ ct_hist_entries_' = [ct_hist_entries_ EXCEPT ![r][id].mtx = t]
        /\ pc' = [pc EXCEPT ![t] = "hist_write"]
        /\ arg' = [arg EXCEPT ![t].loc = ct_hist_entries_[r][id].hist]
        /\ report' = NoReport
        /\ UNCHANGED <<timerVars, unitVars, lastError, stats_mutex_, counterVars, gaugeVars,
                       ct_hist_active_, hDone, ct_stat_names_, sops>>

\* histogram_record: record() writes the histogram back, the call returns
HistogramRecordWrite(t) ==
    LET r == arg[t].r
        id == CtStatID(arg[t].n)
    IN  /\ At(t, "hist_write")
        /\ ct_hist_entries_' = [ct_hist_entries_ EXCEPT
                                  ![r][id].hist = HistogramRecord(arg[t].loc, arg[t].v),
                                  ![r][id].mtx = Free]
        /\ hDone' = [hDone EXCEPT ![r][id] = @ + 1]
        /\ Return(t)
        /\ report' = NoReport
        /\ UNCHANGED <<timerVars, unitVars, lastError, stats_mutex_, counterVars, gaugeVars,
                       ct_hist_active_, ct_stat_names_, sops>>

\* histogram_reset<Name>(): under entry.mtx
HistogramResetCall(t, r, n) ==
    LET id == CtStatID(n)
    IN  /\ CanCallStats(t)
        /\ MutexFree(ct_hist_entries_[r][id].mtx)
        /\ ct_hist_entries_' = [ct_hist_entries_ EXCEPT ![r][id].hist = HistogramReset(@)]
        /\ hDone' = [hDone EXCEPT ![r][id] = 0]
        /\ Done(t)
        /\ report' = NoReport
        /\ UNCHANGED <<timerVars, unitVars, stats_mutex_, counterVars, gaugeVars, ct_hist_active_,
                       ct_stat_names_>>

\* get_histogram_report(): takes stats_mutex_
HistReportBegin(t, r) ==
    /\ CanCallStats(t)
    /\ stats_mutex_[r] = Free
    /\ stats_mutex_' = [stats_mutex_ EXCEPT ![r] = t]
    /\ Enter(t, "get_histogram_report", "hist_report", r, NoName, 1, <<>>)
    /\ report' = NoReport
    /\ UNCHANGED <<timerVars, unitVars, counterVars, gaugeVars, histVars, ct_stat_names_>>

\* the HistogramRow that get_histogram_report() builds from one histogram
HistogramRow(name, h) ==
    LET in_range == h.total - h.underflow - h.overflow
        width == FDiv(Frac(h.high - h.low), Frac(Len(h.buckets)))
    IN  [name |-> name, total |-> h.total, underflow |-> h.underflow,
         overflow |-> h.overflow,
         buckets |-> [k \in DOMAIN h.buckets |->
             LET blo == FAdd(Frac(h.low), FMul(Frac(k - 1), width))
             IN  [low |-> blo, high |-> FAdd(blo, width), count |-> h.buckets[k],
                  pct |-> IF in_range > 0
                          THEN FDiv(Frac(100 * h.buckets[k]), Frac(in_range))
                          ELSE Frac(0)]]]

\* what one iteration of the loop of get_histogram_report() adds to the result
HistReportRows(rows, r, i) ==
    IF ~ct_hist_active_[r][i] THEN rows
    ELSE Append(rows, HistogramRow(ct_stat_names_[r][i], ct_hist_entries_[r][i].hist))

\* get_histogram_report(): one iteration, which takes the mutex of an active slot
HistReportStep(t) ==
    LET r == arg[t].r
        k == arg[t].v
        i == StatIdSeq[k]
        rows == HistReportRows(arg[t].loc, r, i)
    IN  /\ At(t, "hist_report")
        /\ LocksSlot(ct_hist_active_[r][i]) => MutexFree(ct_hist_entries_[r][i].mtx)
        /\ IF k < Len(StatIdSeq)
           THEN /\ arg' = [arg EXCEPT ![t].v = k + 1, ![t].loc = rows]
                /\ report' = NoReport
                /\ UNCHANGED <<pc, stats_mutex_>>
           ELSE /\ Return(t)
                /\ stats_mutex_' = [stats_mutex_ EXCEPT ![r] = Free]
                /\ report' = [kind |-> "histogram", reg |-> r, rows |-> rows]
        /\ UNCHANGED <<timerVars, unitVars, lastError, counterVars, gaugeVars, histVars,
                       ct_stat_names_, sops>>

\* ------------------------------------------------- the StatsRegistry runs
Deltas == 1..MaxDelta
Samples == 1..MaxSample
\* (low, high, n_buckets) passed to histogram_create: a proper layout over
\* [0.0, 2.0), low == high, n_buckets == 0
CreateArgs == {<<0, 4, MaxBuckets>>, <<2, 2, 1>>, <<0, 4, 0>>}
\* values recorded: below low, in each half of the range, high itself
HistValues == {-1, 1, 3, 4}

NextCounter ==
    \/ \E t \in Threads, r \in StatRegs, n \in Names, d \in Deltas : CounterInc(t, r, n, d)
    \/ \E t \in Threads, r \in StatRegs, n \in Names, d \in Deltas : CounterDec(t, r, n, d)
    \/ \E t \in Threads : EnsureCounterCheck(t)
    \/ \E t \in Threads : EnsureCounterLocked(t)
    \/ \E t \in Threads, r \in StatRegs, n \in Names, v \in Deltas : CounterSet(t, r, n, v)
    \/ \E t \in Threads, r \in StatRegs, n \in Names : CounterReset(t, r, n)
    \/ \E t \in Threads, r \in StatRegs, n \in Names : CounterGet(t, r, n)
    \/ \E t \in Threads, r \in StatRegs : CounterReportBegin(t, r)
    \/ \E t \in Threads : CounterReportStep(t)
    \/ ReportSeen

SpecCounter == Init /\ [][NextCounter]_vars

NextGauge ==
    \/ \E t \in Threads, r \in StatRegs, n \in Names, v \in Samples : GaugeRecord(t, r, n, v)
    \/ \E t \in Threads : GaugeRecordLock(t)
    \/ \E t \in Threads : GaugeRecordWrite(t)
    \/ \E t \in Threads : EnsureGaugeLocked(t)
    \/ \E t \in Threads, r \in StatRegs, n \in Names : GaugeReset(t, r, n)
    \/ \E t \in Threads, r \in StatRegs : GaugeReportBegin(t, r)
    \/ \E t \in Threads : GaugeReportStep(t)
    \/ ReportSeen

SpecGauge == Init /\ [][NextGauge]_vars

NextHist ==
    \/ \E t \in Threads, r \in StatRegs, n \in Names, a \in CreateArgs :
          HistogramCreate(t, r, n, a[1], a[2], a[3])
    \/ \E t \in Threads : HistogramCreateCheck(t)
    \/ \E t \in Threads : HistogramCreateLock(t)
    \/ \E t \in Threads : EnsureHistLocked(t)
    \/ \E t \in Threads, r \in StatRegs, n \in Names, v \in HistValues :
          HistogramRecordCall(t, r, n, v)
    \/ \E t \in Threads : HistogramRecordLock(t)
    \/ \E t \in Threads : HistogramRecordWrite(t)
    \/ \E t \in Threads, r \in StatRegs, n \in Names : HistogramResetCall(t, r, n)
    \/ \E t \in Threads, r \in StatRegs : HistReportBegin(t, r)
    \/ \E t \in Threads : HistReportStep(t)
    \/ ReportSeen

SpecHist == Init /\ [][NextHist]_vars

\* Histogram::record as a function of the layout and the value: registry r1
\* starts with histogram "a" already created over one of the layouts
\* (low, high, n_buckets), and one thread records values into it.
BucketLayouts == {<<0, 20, 10>>, <<0, 4, MaxBuckets>>, <<0, 3, 2>>, <<-2, 2, 1>>}
BucketValues == -3..21

InitBucket ==
    /\ InitTimer
    /\ InitUnit
    /\ \E lay \in BucketLayouts :
          StatsWith([r \in StatRegs |-> [i \in StatIds |->
                        IF r = "r1" /\ i = CtStatID("a")
                        THEN [mtx |-> Free, hist |-> NewHistogram(lay[1], lay[2], lay[3]),
                              created |-> TRUE]
                        ELSE NewHistEntry]],
                    [r \in StatRegs |-> [i \in StatIds |-> r = "r1" /\ i = CtStatID("a")]],
                    [r \in StatRegs |-> [i \in StatIds |->
                        IF r = "r1" /\ i = CtStatID("a") THEN "a" ELSE NoName]])

NextBucket ==
    \/ \E v \in BucketValues : HistogramRecordCall("t1", "r1", "a", v)
    \/ HistogramRecordLock("t1")
    \/ HistogramRecordWrite("t1")

SpecBucket == InitBucket /\ [][NextBucket]_vars

\* ================================================= stand-alone objects
\* TimerStats / GaugeStats used directly, outside any registry.
UnitSamples == -1..MaxSample

\* x.record(v)
AccRecord(x, v) ==
    /\ unitOp.n < MaxUnitOps
    /\ accum' = [accum EXCEPT ![x] = StatsRecord(@, v)]
    /\ fed' = [fed EXCEPT ![x] = Append(@, v)]
    /\ unitOp' = [unitOp EXCEPT !.op = "record", !.n = @ + 1]
    /\ UNCHANGED <<timerVars, statsVars, sw, scopeVars, idVars, lockVars, report>>

\* x.merge(y)
AccMerge(x, y) ==
    /\ unitOp.n < MaxUnitOps
    /\ x # y
    /\ accum' = [accum EXCEPT ![x] = StatsMerge(@, accum[y])]
    /\ fed' = [fed EXCEPT ![x] = @ \o fed[y]]
    /\ unitOp' = [unitOp EXCEPT !.op = "merge", !.n = @ + 1]
    /\ UNCHANGED <<timerVars, statsVars, sw, scopeVars, idVars, lockVars, report>>

NextRecord == \E x \in {"A", "B"}, v \in UnitSamples : AccRecord(x, v)

SpecRecord == Init /\ [][NextRecord]_vars

NextMerge ==
    \/ \E x \in {"A", "B"}, v \in UnitSamples : AccRecord(x, v)
    \/ \E x, y \in {"A", "B"} : AccMerge(x, y)

SpecMerge == Init /\ [][NextMerge]_vars

\* ------------------------------------------------ a stand-alone Timer
\* the steady clock moves on between two calls
SwTick ==
    /\ now < MaxSwClock
    /\ now' = now + 1
    /\ UNCHANGED <<tstate, tloc, regVars, dangling, ghostVars, report>>
    /\ UNCHANGED <<statsVars, unitVars>>

\* one member call on the Timer; early is true when the call finds the timer
\* in the state its first test returns on
SwCall(op, early, after) ==
    /\ unitOp.n < MaxSwCalls
    /\ sw' = after
    /\ unitOp' = [op |-> op, n |-> unitOp.n + 1,
                  noops |-> IF early THEN unitOp.noops \cup {op} ELSE unitOp.noops,
                  calls |-> Append(unitOp.calls, [op |-> op, at |-> now])]
    /\ UNCHANGED <<timerVars, statsVars, accum, fed, scopeVars, idVars, lockVars, report>>

SwStart == SwCall("start", sw.running, TimerStart(sw, now))
SwStop == SwCall("stop", ~sw.running, TimerStop(sw, now))
SwReset == SwCall("reset", FALSE, TimerReset(sw))

NextStopwatch == SwTick \/ SwStart \/ SwStop \/ SwReset
SpecStopwatch == Init /\ [][NextStopwatch]_vars

\* ------------------------------------------- make_scoped_timer / _counter
\* the innermost live scoped object of the thread
Innermost(t) == scoped[t][Len(scoped[t])]

\* CtScopedTimer(reg): registry_(&r), slot_(r.start<Name>())
ScopedTimerMake(t, r, n) ==
    /\ StartCall(t, r, n)
    /\ scoped' = [scoped EXCEPT ![t] = Append(@, [kind |-> "timer", r |-> r, n |-> n])]
    /\ UNCHANGED destroyed

\* ~CtScopedTimer(): registry_->stop(slot_), when the scope is left or unwound
ScopedTimerDestroy(t) ==
    /\ scoped[t] # <<>>
    /\ Innermost(t).kind = "timer"
    /\ StopSlot(t, Innermost(t).r, Innermost(t).n)
    /\ scoped' = [scoped EXCEPT ![t] = SubSeq(@, 1, Len(@) - 1)]
    /\ destroyed' = [destroyed EXCEPT ![t][Innermost(t).n] = @ + 1]

NextScopedTimer ==
    \/ \E t \in Threads, r \in Regs, n \in Names : ScopedTimerMake(t, r, n)
    \/ \E t \in Threads : ScopedTimerDestroy(t)
    \/ Tick

SpecScopedTimer == Init /\ [][NextScopedTimer]_vars

\* CtScopedCounter(reg): ptr_(reg.counter_ref<Name>()) begins with
\* ct_ensure_counter_name
ScopedCounterMake(t, r, n) ==
    /\ CanCallStats(t)
    /\ Enter(t, "make_scoped_counter", "ensure_counter", r, n, 1, <<>>)
    /\ report' = NoReport
    /\ UNCHANGED <<timerVars, unitVars, stats_mutex_, counterVars, gaugeVars, histVars,
                   ct_stat_names_>>

\* CtScopedCounter(reg): ptr_->fetch_add(1)
ScopedCounterAdd(t) ==
    LET r == arg[t].r
        n == arg[t].n
    IN  /\ At(t, "scoped_add")
        /\ ct_counters_' = [ct_counters_ EXCEPT ![r][CtStatID(n)] = FetchAdd(@, 1)]
        /\ scoped' = [scoped EXCEPT ![t] = Append(@, [kind |-> "counter", r |-> r, n |-> n])]
        /\ Return(t)
        /\ report' = NoReport
        /\ UNCHANGED <<timerVars, objVars, idVars, lockVars, destroyed, lastError, stats_mutex_,
                       ct_counter_active_, ctrExpect, gaugeVars, histVars,
                       ct_stat_names_, sops>>

\* ~CtScopedCounter(): ptr_->fetch_sub(1), when the scope is left or unwound
ScopedCounterDestroy(t) ==
    /\ tstate[t] = "running"
    /\ pc[t] = "idle"
    /\ report = NoReport
    /\ scoped[t] # <<>>
    /\ Innermost(t).kind = "counter"
    /\ ct_counters_' = [ct_counters_ EXCEPT ![Innermost(t).r][CtStatID(Innermost(t).n)] =
                           FetchSub(@, 1)]
    /\ scoped' = [scoped EXCEPT ![t] = SubSeq(@, 1, Len(@) - 1)]
    /\ report' = NoReport
    /\ UNCHANGED <<timerVars, objVars, idVars, lockVars, destroyed, pc, arg, lastError, stats_mutex_,
                   ct_counter_active_, ctrExpect, gaugeVars, histVars, ct_stat_names_, sops>>

NextScopedCounter ==
    \/ \E t \in Threads, r \in StatRegs, n \in Names : ScopedCounterMake(t, r, n)
    \/ \E t \in Threads : EnsureCounterCheck(t)
    \/ \E t \in Threads : EnsureCounterLocked(t)
    \/ \E t \in Threads : ScopedCounterAdd(t)
    \/ \E t \in Threads : ScopedCounterDestroy(t)
    \/ \E t \in Threads, r \in StatRegs, n \in Names, d \in Deltas : CounterInc(t, r, n, d)
    \/ \E t \in Threads, r \in StatRegs, n \in Names : CounterGet(t, r, n)
    \/ ReportSeen

SpecScopedCounter == Init /\ [][NextScopedCounter]_vars

\* ------------------------------------- one caller, two StatsRegistry objects
\* Every counter, gauge, histogram and scoped-counter operation, issued by one
\* thread on either registry.
NextIsolation ==
    \/ \E r \in StatRegs, n \in Names : CounterInc("t1", r, n, 1)
    \/ \E r \in StatRegs, n \in Names : CounterDec("t1", r, n, 1)
    \/ EnsureCounterCheck("t1")
    \/ EnsureCounterLocked("t1")
    \/ \E r \in StatRegs, n \in Names : CounterSet("t1", r, n, MaxDelta)
    \/ \E r \in StatRegs, n \in Names : CounterReset("t1", r, n)
    \/ \E r \in StatRegs, n \in Names : CounterGet("t1", r, n)
    \/ \E r \in StatRegs : CounterReportBegin("t1", r)
    \/ CounterReportStep("t1")
    \/ \E r \in StatRegs, n \in Names : ScopedCounterMake("t1", r, n)
    \/ ScopedCounterAdd("t1")
    \/ ScopedCounterDestroy("t1")
    \/ \E r \in StatRegs, n \in Names : GaugeRecord("t1", r, n, MaxSample)
    \/ GaugeRecordLock("t1")
    \/ GaugeRecordWrite("t1")
    \/ EnsureGaugeLocked("t1")
    \/ \E r \in StatRegs, n \in Names : GaugeReset("t1", r, n)
    \/ \E r \in StatRegs : GaugeReportBegin("t1", r)
    \/ GaugeReportStep("t1")
    \/ \E r \in StatRegs, n \in Names, a \in {<<0, 4, MaxBuckets>>, <<2, 2, 1>>} :
          HistogramCreate("t1", r, n, a[1], a[2], a[3])
    \/ HistogramCreateCheck("t1")
    \/ HistogramCreateLock("t1")
    \/ EnsureHistLocked("t1")
    \/ \E r \in StatRegs, n \in Names, v \in {-1, 1} : HistogramRecordCall("t1", r, n, v)
    \/ HistogramRecordLock("t1")
    \/ HistogramRecordWrite("t1")
    \/ \E r \in StatRegs, n \in Names : HistogramResetCall("t1", r, n)
    \/ \E r \in StatRegs : HistReportBegin("t1", r)
    \/ HistReportStep("t1")
    \/ ReportSeen

SpecIsolation == Init /\ [][NextIsolation]_vars

\* --------------------------------------- assign_id / assign_stat_id
\* the index passes for a valid one
IdInRangeOffByOne(k, idx) == idx <= MaxSlots(k)

\* the negation of: if (slot_id >= MAX_CT_TIMERS) / if (idx >= MAX_CT_STATS)
IdInRange(k, idx) == ~(idx >= MaxSlots(k))

\* The initialiser of CtSlotID<h>::value or CtStatID<h>::value enters
\* assign_id / assign_stat_id and does next.fetch_add(1). A static member is
\* initialised once: no initialiser runs for a value that has one or is being
\* given one.
AssignIdFetch(t, k, n) ==
    LET h == hash_name(n)
    IN  /\ ~aborted
        /\ tstate[t] = "running"
        /\ initPc[t] = NoInit
        /\ value[k][h] = Unassigned
        /\ \A u \in Threads : ~(initPc[u].k = k /\ initPc[u].h = h)
        /\ next' = [next EXCEPT ![k] = FetchAdd(@, 1)]
        /\ initPc' = [initPc EXCEPT ![t] = [k |-> k, h |-> h, idx |-> next[k]]]
        /\ UNCHANGED <<timerVars, statsVars, objVars, scopeVars, lockVars, value, aborted, report>>

\* assign_id / assign_stat_id: the limit test, then std::abort() or the return
\* that initialises ::value
AssignIdReturn(t) ==
    LET k == initPc[t].k
    IN  /\ ~aborted
        /\ initPc[t] # NoInit
        /\ IF IdInRange(k, initPc[t].idx)
           THEN /\ value' = [value EXCEPT ![k][initPc[t].h] = initPc[t].idx]
                /\ UNCHANGED aborted
           ELSE /\ aborted' = TRUE
                /\ UNCHANGED value
        /\ initPc' = [initPc EXCEPT ![t] = NoInit]
        /\ UNCHANGED <<timerVars, statsVars, objVars, scopeVars, lockVars, next, report>>

NextAssign ==
    \/ \E t \in Threads, k \in Kinds, n \in ProgramNames : AssignIdFetch(t, k, n)
    \/ \E t \in Threads : AssignIdReturn(t)

SpecAssign == Init /\ [][NextAssign]_vars

\* ------------------------------------ hot path against a held registry lock
\* reset<Name>() or get_stats_report(): std::lock_guard lock(mutex_) succeeds;
\* at remembers how many timer calls had been made by then (a reset is counted
\* when its body runs, a report here)
SlowBegin(t, r, op, n) ==
    /\ tstate[t] = "running"
    /\ regAlive[r]
    /\ report = NoReport
    /\ ops < MaxOps
    /\ pc[t] = "idle"
    /\ slow[t] = NoSlow
    /\ mutex_[r] = Free
    /\ mutex_' = [mutex_ EXCEPT ![r] = t]
    /\ slow' = [slow EXCEPT ![t] = [op |-> op, r |-> r, n |-> n, at |-> ops]]
    /\ ops' = IF op = "report" THEN ops + 1 ELSE ops
    /\ UNCHANGED <<now, tstate, tloc, regVars, dangling, cycles, stops, startReg, wasReset>>
    /\ UNCHANGED <<statsVars, objVars, scopeVars, idVars, report>>

\* reset<Name>(): the body, then the lock_guard is destroyed
ResetEnd(t) ==
    /\ slow[t].op = "reset"
    /\ ResetCall(t, slow[t].r, slow[t].n)
    /\ mutex_' = [mutex_ EXCEPT ![slow[t].r] = Free]
    /\ slow' = [slow EXCEPT ![t] = NoSlow]

\* get_stats_report(): the body, then the lock_guard is destroyed
ReportEnd(t) ==
    /\ slow[t].op = "report"
    /\ GetStatsReportCall(slow[t].r)
    /\ mutex_' = [mutex_ EXCEPT ![slow[t].r] = Free]
    /\ slow' = [slow EXCEPT ![t] = NoSlow]

\* start<Name>(): only the registration branch of ct_get_or_create_slot locks mutex_
HotStart(t, r, n) ==
    /\ slow[t] = NoSlow
    /\ NeedsRegistration(tloc[t], CtSlotID(n)) => mutex_[r] = Free
    /\ Start(t, r, n)

\* stop<Name>() / stop(Slot*): no lock
HotStop(t, r, n) == slow[t] = NoSlow /\ Stop(t, r, n)

\* what q.is_running<n>(), q.elapsed<n>() and q.stats<n>() return to thread t:
\* thread_local_storage().ct_slots[slot_id], whichever registry q is
SlotView(locals, clock, t, q, n) ==
    LET slot == locals[t].ct_slots[CtSlotID(n)]
    IN  [is_running |-> slot.timer.running,
         elapsed |-> TimerElapsed(slot.timer, clock),
         stats |-> slot.stats]

\* is_running<Name>() / elapsed<Name>() / stats<Name>(): an array lookup, no lock
ReadSlot(t, r, n) ==
    LET slot == tloc[t].ct_slots[CtSlotID(n)]
    IN  /\ tstate[t] = "running"
        /\ regAlive[r]
        /\ report = NoReport
        /\ slow[t] = NoSlow
        /\ report' = [kind |-> "slot", reg |-> r, name |-> n,
                      is_running |-> slot.timer.running,
                      elapsed |-> TimerElapsed(slot.timer, now),
                      stats |-> slot.stats]
        /\ UNCHANGED <<timerVars, statsVars, unitVars>>

\* Thread t1 uses the hot path of registry r1 while thread t2 makes the calls
\* that hold its locks.
NextHotPath ==
    \/ \E n \in Names : HotStart("t1", "r1", n)
    \/ \E n \in Names : HotStop("t1", "r1", n)
    \/ \E n \in Names : ReadSlot("t1", "r1", n)
    \/ SlowBegin("t2", "r1", "reset", "a")
    \/ SlowBegin("t2", "r1", "report", NoName)
    \/ ResetEnd("t2")
    \/ ReportEnd("t2")
    \/ CounterInc("t1", "r1", "a", 1)
    \/ CounterDec("t1", "r1", "a", 1)
    \/ EnsureCounterCheck("t1")
    \/ EnsureCounterLocked("t1")
    \/ CounterSet("t1", "r1", "a", MaxDelta)
    \/ CounterGet("t1", "r1", "a")
    \/ slow["t2"] = NoSlow /\ CounterReportBegin("t2", "r1")
    \/ CounterReportStep("t2")
    \/ ReportSeen
    \/ Tick

SpecHotPath == Init /\ [][NextHotPath]_vars

\* ------------------------------------------ timers and gauges of one registry
\* Both threads time the name a in the StatsRegistry r1, reset it, report and
\* exit, while thread t1 also records and resets its gauge a.
NextTimerGauge ==
    \/ \E t \in Threads : Start(t, "r1", "a")
    \/ \E t \in Threads : Stop(t, "r1", "a")
    \/ \E t \in Threads : Reset(t, "r1", "a")
    \/ \E t \in Threads : ThreadExitBegin(t)
    \/ \E t \in Threads : ThreadExitMerge(t)
    \/ GetStatsReport("r1")
    \/ GetStatsReportPerThread("r1")
    \/ GaugeRecord("t1", "r1", "a", MaxSample)
    \/ GaugeRecordLock("t1")
    \/ GaugeRecordWrite("t1")
    \/ EnsureGaugeLocked("t1")
    \/ GaugeReset("t1", "r1", "a")
    \/ ReportSeen
    \/ Tick

SpecTimerGauge == Init /\ [][NextTimerGauge]_vars

\* ------------------------------------------------------------ lock order
\* thread t holds the mutex of some gauge or histogram slot
HoldsSlotMutex(t) ==
    \E r \in StatRegs, i \in StatIds :
        ct_gauges_[r][i].mtx = t \/ ct_hist_entries_[r][i].mtx = t

\* thread t is at the std::lock_guard lock(stats_mutex_) of a ct_ensure_*_name
AtRegistryLock(t) ==
    pc[t] \in {"ensure_counter_locked", "ensure_gauge_locked", "ensure_hist_locked"}

\* thread t is in no call
Idle(t) == pc[t] = "idle" /\ slow[t] = NoSlow

\* thread t issues a call on the name a of registry r1
IssueCall(t) ==
    /\ Idle(t)
    /\ ops + sops < MaxCalls
    /\ \/ GaugeRecord(t, "r1", "a", 1)
       \/ GaugeReset(t, "r1", "a")
       \/ GaugeReportBegin(t, "r1")
       \/ HistogramCreate(t, "r1", "a", 0, 4, MaxBuckets)
       \/ HistogramRecordCall(t, "r1", "a", 1)
       \/ HistogramResetCall(t, "r1", "a")
       \/ HistReportBegin(t, "r1")
       \/ CounterInc(t, "r1", "a", 1)
       \/ CounterReportBegin(t, "r1")
       \/ HotStart(t, "r1", "a")
       \/ HotStop(t, "r1", "a")
       \/ SlowBegin(t, "r1", "reset", "a")
       \/ SlowBegin(t, "r1", "report", NoName)
       \/ ThreadExitBegin(t)

\* ~ThreadLocal: std::lock_guard lock(registry->mutex_) waits for the lock
ThreadExitLocked(t) ==
    /\ tloc[t].registry # NULL => mutex_[tloc[t].registry] = Free
    /\ ThreadExitMerge(t)

\* the call thread t is in takes its next step
ContinueCall(t) ==
    \/ GaugeRecordLock(t)
    \/ GaugeRecordWrite(t)
    \/ EnsureGaugeLocked(t)
    \/ GaugeReportStep(t)
    \/ HistogramCreateCheck(t)
    \/ HistogramCreateLock(t)
    \/ EnsureHistLocked(t)
    \/ HistogramRecordLock(t)
    \/ HistogramRecordWrite(t)
    \/ HistReportStep(t)
    \/ EnsureCounterCheck(t)
    \/ EnsureCounterLocked(t)
    \/ CounterReportStep(t)
    \/ ResetEnd(t)
    \/ ReportEnd(t)
    \/ ThreadExitLocked(t)

NextLocks ==
    \/ \E t \in Threads : IssueCall(t)
    \/ \E t \in Threads : ContinueCall(t)
    \/ ReportSeen

\* where each thread is in its call: its step, and the slot a report loop is at
callPos ==
    <<pc, slow, tstate,
      [t \in Threads |-> IF pc[t] \in {"counter_report", "gauge_report", "hist_report"}
                         THEN arg[t].v ELSE 0]>>

\* a call that can take its next step does so, and a report is consumed
FairLocks == (\A t \in Threads : WF_callPos(ContinueCall(t))) /\ WF_report(ReportSeen)

SpecLocks == Init /\ [][NextLocks]_vars /\ FairLocks

\* --------------------------------------- the four categories of one registry
\* Thread t1 uses the StatsRegistry r1 for timers, counters, gauges and
\* histograms, one call after the other, and reads the four reports.
NextCategories ==
    \/ \E n \in Names : Idle("t1") /\ Start("t1", "r1", n)
    \/ \E n \in Names : Idle("t1") /\ Stop("t1", "r1", n)
    \/ Idle("t1") /\ Reset("t1", "r1", "a")
    \/ Idle("t1") /\ GetStatsReport("r1")
    \/ CounterInc("t1", "r1", "a", 1)
    \/ EnsureCounterCheck("t1")
    \/ EnsureCounterLocked("t1")
    \/ CounterSet("t1", "r1", "b", MaxDelta)
    \/ CounterReset("t1", "r1", "a")
    \/ CounterReportBegin("t1", "r1")
    \/ CounterReportStep("t1")
    \/ GaugeRecord("t1", "r1", "a", MaxSample)
    \/ GaugeRecordLock("t1")
    \/ GaugeRecordWrite("t1")
    \/ EnsureGaugeLocked("t1")
    \/ GaugeReset("t1", "r1", "a")
    \/ GaugeReportBegin("t1", "r1")
    \/ GaugeReportStep("t1")
    \/ HistogramCreate("t1", "r1", "a", 0, 4, MaxBuckets)
    \/ HistogramCreateCheck("t1")
    \/ HistogramCreateLock("t1")
    \/ EnsureHistLocked("t1")
    \/ HistogramRecordCall("t1", "r1", "a", 1)
    \/ HistogramRecordLock("t1")
    \/ HistogramRecordWrite("t1")
    \/ HistogramResetCall("t1", "r1", "a")
    \/ HistReportBegin("t1", "r1")
    \/ HistReportStep("t1")
    \/ ReportSeen

SpecCategories == Init /\ [][NextCategories]_vars

\* ----------------------------------------------------------------- claims
\* the rows of the report just returned that carry name n
RowsNamed(n) == SelectSeq(report.rows, LAMBDA row : row.name = n)
StatsReportOf(r) == report.kind = "stats" /\ report.reg = r
Joined(t) == tstate[t] = "exited"

RECURSIVE SumOver(_, _)
SumOver(f, S) ==
    IF S = {} THEN 0
    ELSE LET x == CHOOSE y \in S : TRUE IN f[x] + SumOver(f, S \ {x})

\* C1: thread-exit durability. A get_stats_report() of registry r returned
\* after thread t terminated, t having completed M > 0 start<n>/stop<n>
\* cycles on r and no reset<n> having been issued, has a row for n with
\* call_count >= M.
C1_ThreadExitDurability ==
    \A r \in Regs, t \in Threads, n \in Names :
        (StatsReportOf(r) /\ Joined(t) /\ cycles[r][t][n] > 0 /\ ~wasReset[r][n])
            => \E k \in 1..Len(report.rows) :
                   /\ report.rows[k].name = n
                   /\ report.rows[k].call_count >= cycles[r][t][n]

\* C2: a get_stats_report() of registry r returned while thread t is live, t
\* having completed a start<n>/stop<n> cycle on r, has a row for n that
\* counts t's samples, whatever other registries t used before.
C2_LiveThreadReported ==
    \A r \in Regs, t \in Threads, n \in Names :
        (StatsReportOf(r) /\ tstate[t] = "running" /\ cycles[r][t][n] > 0
            /\ ~wasReset[r][n])
            => /\ Len(RowsNamed(n)) = 1
               /\ RowsNamed(n)[1].call_count >= cycles[r][t][n]

\* C3: when the threads of a set S each completed K start<n>/stop<n> cycles
\* on registry r (no other stop and no reset of n on r) and are joined, the merged
\* report has exactly one row for n, with call_count = |S|*K and
\* thread_count = |S|.
C3_MergedAcrossThreads ==
    \A r \in Regs, n \in Names, S \in (SUBSET Threads) \ {{}}, K \in 1..MaxOps :
        (/\ StatsReportOf(r)
         /\ \A t \in S : Joined(t) /\ cycles[r][t][n] = K /\ stops[r][t][n] = K
         /\ \A t \in Threads \ S : stops[r][t][n] = 0
         /\ ~wasReset[r][n])
            => /\ Len(RowsNamed(n)) = 1
               /\ RowsNamed(n)[1].call_count = Cardinality(S) * K
               /\ RowsNamed(n)[1].thread_count = Cardinality(S)

PerThreadReportOf(r) == report.kind = "per_thread" /\ report.reg = r

RECURSIVE SumCalls(_)
SumCalls(rows) == IF rows = <<>> THEN 0 ELSE Head(rows).call_count + SumCalls(Tail(rows))

\* every stop of name n so far closed an interval begun on the same registry,
\* and r.reset<n>() was not called
OnlyCycles(r, n) ==
    /\ ~wasReset[r][n]
    /\ \A q \in Regs, t \in Threads : stops[q][t][n] = cycles[q][t][n]

\* C4, reports: whatever the interleaving of thread exits and report calls,
\* a report of r counts each thread's completed samples for n exactly once,
\* be the thread live or retired.
C4_CountedOnce ==
    \A r \in Regs, n \in Names :
        OnlyCycles(r, n) =>
            /\ StatsReportOf(r) =>
                   SumCalls(RowsNamed(n)) = SumOver([t \in Threads |-> cycles[r][t][n]], Threads)
            /\ PerThreadReportOf(r) =>
                   \A t \in Threads :
                       SumCalls(SelectSeq(report.rows,
                                    LAMBDA row : row.name = n /\ row.tid = t))
                           = cycles[r][t][n]

\* C4, exit: a thread whose finalizer merges into registry r appends exactly
\* one snapshot row per name it holds samples of and leaves the directory.
C4_ExitAppendsOnce ==
    \A t \in Threads :
        (tstate[t] = "exiting" /\ tstate'[t] = "exited" /\ tloc[t].registry # NULL) =>
            LET r == tloc[t].registry
                added == SubSeq(thread_graveyard_'[r], Len(thread_graveyard_[r]) + 1,
                                Len(thread_graveyard_'[r]))
            IN  /\ SubSeq(thread_graveyard_'[r], 1, Len(thread_graveyard_[r]))
                       = thread_graveyard_[r]
                /\ \A k \in 1..Len(added) : added[k].tid = t /\ added[k].call_count > 0
                /\ \A j, k \in 1..Len(added) : added[j].name = added[k].name => j = k
                /\ \A n \in Names :
                       (tloc[t].ct_active[CtSlotID(n)]
                            /\ tloc[t].ct_slots[CtSlotID(n)].stats.count > 0)
                           => \E k \in 1..Len(added) :
                                  /\ added[k].name = n
                                  /\ added[k].call_count
                                         = tloc[t].ct_slots[CtSlotID(n)].stats.count
                /\ t \notin live_threads_'[r]

\* C4: thread-exit merging is atomic and happens exactly once per thread.
C4_ExitMergeExactlyOnce == [](C4_CountedOnce) /\ [][C4_ExitAppendsOnce]_vars

\* ------------------------------------------------- claims, StatsRegistry
AllReturned == \A t \in Threads : pc[t] = "idle"
\* some thread is inside the call op on name n of registry r
InFlight(op, r, n) ==
    \E t \in Threads : pc[t] # "idle" /\ arg[t].op = op /\ arg[t].r = r /\ arg[t].n = n

\* the value counter i of registry r started from, plus the inc deltas, minus
\* the dec deltas
CounterExpected(r, i) ==
    ctrExpect[r][i].base + SumOver(ctrExpect[r][i].incs, Threads)
                         - SumOver(ctrExpect[r][i].decs, Threads)

\* C5: once every counter_inc/counter_dec call has returned, each counter holds
\* the value it started from (its initial 0, or the last counter_set /
\* counter_reset) plus the sum of the inc deltas minus the sum of the dec
\* deltas, whatever the interleaving of the calling threads, and counter_get
\* returns that value; with every delta 1 this is N*K for N threads of K incs.
C5_CounterSum ==
    AllReturned =>
        /\ \A r \in StatRegs, i \in StatIds : ct_counters_[r][i] = CounterExpected(r, i)
        /\ report.kind = "counter_get" =>
               report.value = CounterExpected(report.reg, CtStatID(report.name))

\* C5 case: counter_get returns after one thread incremented and another
\* decremented the same counter.
C5_Witness ==
    /\ AllReturned
    /\ report.kind = "counter_get"
    /\ \E t, u \in Threads :
          /\ t # u
          /\ ctrExpect[report.reg][CtStatID(report.name)].incs[t] > 1
          /\ ctrExpect[report.reg][CtStatID(report.name)].decs[u] > 0
          /\ ctrExpect[report.reg][CtStatID(report.name)].incs[u] > 0

\* C6: with no gauge_reset issued and no gauge_record on the gauge in flight,
\* the gauge's count is the number of gauge_record calls made on it and its
\* total the sum of the values they passed: no Welford update is lost.
C6_GaugeSerialized ==
    \A r \in StatRegs, n \in Names :
        LET i == CtStatID(n)
        IN  (~gWasReset[r][i] /\ ~InFlight("gauge_record", r, n)) =>
                /\ ct_gauges_[r][i].stats.count = SumOver(gCalls[r][i], Threads)
                /\ ct_gauges_[r][i].stats.total = gSum[r][i]

\* C6 case: two threads have recorded into the same gauge, three samples in all.
C6_Witness ==
    \E r \in StatRegs, n \in Names :
        /\ ~gWasReset[r][CtStatID(n)] /\ ~InFlight("gauge_record", r, n)
        /\ \A t \in Threads : gCalls[r][CtStatID(n)][t] > 0
        /\ ct_gauges_[r][CtStatID(n)].stats.count = 3

RECURSIVE SumSeq(_)
SumSeq(s) == IF s = <<>> THEN 0 ELSE Head(s) + SumSeq(Tail(s))

\* C7: whenever a created histogram can be looked at (its mutex is free), its
\* total is underflow + overflow + the sum of its buckets and is the number
\* of histogram_record calls completed since its creation or last reset; and
\* every row get_histogram_report() returns has total = underflow + overflow
\* + the sum of its bucket counts.
C7_HistogramTotal ==
    /\ \A r \in StatRegs, i \in StatIds :
          LET e == ct_hist_entries_[r][i]
          IN  (e.created /\ e.mtx = Free) =>
                  /\ e.hist.total = e.hist.underflow + e.hist.overflow
                                        + SumSeq(e.hist.buckets)
                  /\ e.hist.total = hDone[r][i]
    /\ report.kind = "histogram" =>
          \A k \in 1..Len(report.rows) :
              LET row == report.rows[k]
              IN  row.total = row.underflow + row.overflow
                                + SumSeq([b \in DOMAIN row.buckets |-> row.buckets[b].count])

\* C7 case: a report shows a created histogram that holds two records.
C7_Witness ==
    /\ report.kind = "histogram"
    /\ \E k \in 1..Len(report.rows) : report.rows[k].total = 2

\* the cell the value belongs to: -1 for underflow, n for overflow, else the
\* bucket k (from 0) with  low + k * width <= v < low + (k + 1) * width,
\* which is floor((v - low) / width) for width = (high - low) / n
CellOf(h, v) ==
    LET n == Len(h.buckets)
    IN  IF v < h.low THEN -1
        ELSE IF v >= h.high THEN n
        ELSE CHOOSE k \in 0..(n - 1) :
                 /\ k * (h.high - h.low) <= (v - h.low) * n
                 /\ (v - h.low) * n < (k + 1) * (h.high - h.low)

\* C8: a histogram_record(v) that completes increments exactly the cell v
\* belongs to -- underflow if v < low, overflow if v >= high, else bucket
\* floor((v - low) / ((high - low) / n)) -- by one, counts it in total, and
\* leaves every other cell and the layout as they were.
C8_RecordStep ==
    \A t \in Threads :
        (pc[t] = "hist_write" /\ pc'[t] = "idle") =>
            LET r == arg[t].r
                i == CtStatID(arg[t].n)
                h == ct_hist_entries_[r][i].hist
                g == ct_hist_entries_'[r][i].hist
                n == Len(h.buckets)
                cell == CellOf(h, arg[t].v)
            IN  /\ g.low = h.low /\ g.high = h.high /\ Len(g.buckets) = n
                /\ g.total = h.total + 1
                /\ g.underflow = h.underflow + (IF cell = -1 THEN 1 ELSE 0)
                /\ g.overflow = h.overflow + (IF cell = n THEN 1 ELSE 0)
                /\ \A k \in 1..n :
                       g.buckets[k] = h.buckets[k] + (IF cell = k - 1 THEN 1 ELSE 0)

\* C8: histogram bucketing, for every histogram_record that completes.
C8_Bucketing == [][C8_RecordStep]_vars

\* C8 case: the 10-bucket histogram over [0, 10) has taken a value below low,
\* the value high itself, the value low and a value of the form i + 0.5.
C8_Witness ==
    LET h == ct_hist_entries_["r1"][CtStatID("a")].hist
    IN  /\ Len(h.buckets) = 10 /\ h.low = 0 /\ h.high = 20
        /\ pc["t1"] = "idle"
        /\ h.underflow = 1 /\ h.overflow = 1 /\ h.buckets[1] = 1 /\ h.buckets[4] = 1

\* the rows get_histogram_report() returns for registry r when the histogram
\* entries, active flags and names are the given ones
HistReportIn(entries, active, names, r) ==
    LET ids == SelectSeq(StatIdSeq, LAMBDA i : active[r][i])
    IN  [k \in 1..Len(ids) |-> HistogramRow(names[r][ids[k]], entries[r][ids[k]].hist)]

\* C9: histogram_create throws when low >= high, when n_buckets == 0 and when
\* the name already has a histogram in the registry; and a histogram_create
\* that throws leaves every histogram entry (created flag, bounds, buckets,
\* counts), the active flags and names, and so the histogram report, as
\* they were.
C9_CreateStep ==
    \A t \in Threads :
        LET r == arg[t].r
            i == CtStatID(arg[t].n)
        IN  /\ (pc[t] = "hist_create_check" /\ pc'[t] # pc[t]
                    /\ (arg[t].loc[1] >= arg[t].loc[2] \/ arg[t].loc[3] = 0))
                   => pc'[t] = "idle" /\ lastError'[t] # "none"
            /\ (pc[t] = "hist_create_lock" /\ pc'[t] # pc[t]
                    /\ ct_hist_entries_[r][i].created)
                   => pc'[t] = "idle" /\ lastError'[t] # "none"
            /\ (pc[t] # "idle" /\ arg[t].op = "histogram_create"
                    /\ lastError'[t] # "none" /\ lastError[t] = "none")
                   => /\ ct_hist_entries_' = ct_hist_entries_
                      /\ ct_hist_active_' = ct_hist_active_
                      /\ ct_stat_names_' = ct_stat_names_
                      /\ \A q \in StatRegs :
                             HistReportIn(ct_hist_entries_', ct_hist_active_',
                                          ct_stat_names_', q)
                                 = HistReportIn(ct_hist_entries_, ct_hist_active_,
                                                ct_stat_names_, q)

\* C9: histogram_create raises on low >= high, on n_buckets == 0 and on a
\* duplicate, and leaves the histogram state and report unchanged when it does.
C9_CreateRaisesUnchanged == [][C9_CreateStep]_vars

\* C9 case: one histogram_create was refused for its arguments and another as
\* a duplicate, of a histogram that holds a record.
C9_Witness ==
    \E t, u \in Threads :
        /\ lastError[t] = "invalid_argument"
        /\ lastError[u] = "runtime_error"
        /\ \E r \in StatRegs, i \in StatIds :
              ct_hist_entries_[r][i].created /\ ct_hist_entries_[r][i].hist.total = 1

\* C10, the call: a histogram_record that completes on an entry
\* histogram_create never succeeded for throws to the caller.
C10_RecordStep ==
    \A t \in Threads :
        (pc[t] = "hist_write" /\ pc'[t] = "idle"
             /\ ~ct_hist_entries_[arg[t].r][CtStatID(arg[t].n)].created)
            => lastError'[t] # "none"

\* C10, the entry: the placeholder histogram of an uncreated entry is never
\* recorded into (total, underflow, overflow and buckets stay zero).
C10_PlaceholderEmpty ==
    \A r \in StatRegs, i \in StatIds :
        ~ct_hist_entries_[r][i].created => ct_hist_entries_[r][i].hist = NewHistogram(0, 2, 1)

\* C10: histogram_record on a never-created histogram raises a misuse error
\* and records nothing.
C10_RecordUncreatedRaises == [](C10_PlaceholderEmpty) /\ [][C10_RecordStep]_vars

\* -------------------------------------------------- claims, second part
\* thread t makes a stop<Name>() / stop(Slot*) call on name n in this step
StopsNow(t, n) == \E r \in Regs : stops'[r][t][n] = stops[r][t][n] + 1

\* C11, the call: a stop<Name>() by a thread that never called start<Name>()
\* (its slot for Name was never activated) raises an error to the caller and
\* records no sample.
C11_StopStep ==
    \A t \in Threads, n \in Names :
        (StopsNow(t, n) /\ ~tloc[t].ct_active[CtSlotID(n)]) =>
            /\ lastError'[t] # "none"
            /\ tloc'[t].ct_slots[CtSlotID(n)].stats = tloc[t].ct_slots[CtSlotID(n)].stats

\* C11: stop<Name>() without a start<Name>() on the thread is a reported misuse.
C11_StopNeverStartedRaises == [][C11_StopStep]_vars

\* the least and the greatest value of a non-empty sequence, and the sum of
\* the squared deviations of its values from m
SeqMin(f) == CHOOSE v \in {f[k] : k \in DOMAIN f} : \A k \in DOMAIN f : v <= f[k]
SeqMax(f) == CHOOSE v \in {f[k] : k \in DOMAIN f} : \A k \in DOMAIN f : v >= f[k]
RECURSIVE SqDev(_, _)
SqDev(f, m) ==
    IF f = <<>> THEN Frac(0)
    ELSE FAdd(FMul(FSub(Frac(Head(f)), m), FSub(Frac(Head(f)), m)), SqDev(Tail(f), m))

\* C12: an accumulator built by record() calls alone on a fresh object has
\* count = the number of calls, total = the sum of the values, min and max =
\* their least and greatest, mean = total / count, M2 = the sum of the squared
\* deviations from the mean, and variance() = M2 / count.
C12_RecordExact ==
    \A x \in {"A", "B"} :
        LET s == accum[x]
            f == fed[x]
        IN  /\ s.count = Len(f)
            /\ s.total = SumSeq(f)
            /\ Len(f) = 0 => s = NewStats
            /\ Len(f) > 0 =>
                   /\ s.min = SeqMin(f) /\ s.max = SeqMax(f)
                   /\ s.mean = FDiv(Frac(s.total), Frac(s.count))
                   /\ s.M2 = SqDev(f, FDiv(Frac(SumSeq(f)), Frac(Len(f))))
                   /\ Variance(s) = FDiv(SqDev(f, s.mean), Frac(Len(f)))

\* C12 case: four different-valued samples have gone into one accumulator.
C12_Witness ==
    \E x \in {"A", "B"} :
        Len(fed[x]) = 4 /\ accum[x].min < accum[x].max /\ accum[x].M2 # Frac(0)
            /\ accum[x].mean[2] # 1

\* a fresh accumulator that recorded the values of f one after the other
RECURSIVE RecordAll(_, _)
RecordAll(s, f) == IF f = <<>> THEN s ELSE RecordAll(StatsRecord(s, Head(f)), Tail(f))

\* the same count, total, min, max, mean and variance
SameStats(s, o) ==
    /\ s.count = o.count /\ s.total = o.total /\ s.min = o.min /\ s.max = o.max
    /\ s.mean = o.mean /\ Variance(s) = Variance(o)
    /\ SampleVariance(s) = SampleVariance(o)

\* C13: an accumulator built by record() and merge() has the count, total,
\* min, max, mean and variance of a fresh accumulator that recorded all the
\* samples that went into it; A.merge(B) and B.merge(A) give the same;
\* merging an empty accumulator in changes nothing, and merging into an empty
\* one gives an exact copy.
C13_MergeExact ==
    /\ \A x \in {"A", "B"} : SameStats(accum[x], RecordAll(NewStats, fed[x]))
    /\ SameStats(StatsMerge(accum["A"], accum["B"]), StatsMerge(accum["B"], accum["A"]))
    /\ SameStats(StatsMerge(accum["A"], accum["B"]),
                 RecordAll(NewStats, fed["A"] \o fed["B"]))
    /\ \A x \in {"A", "B"} :
          /\ StatsMerge(accum[x], NewStats) = accum[x]
          /\ StatsMerge(NewStats, accum[x]) = accum[x]

\* C13 case: two non-empty accumulators with different means were merged.
C13_Witness ==
    /\ unitOp.op = "merge"
    /\ Len(fed["A"]) = 3
    /\ Len(fed["B"]) = 1
    /\ accum["A"].mean # accum["B"].mean
    /\ accum["A"].M2 # Frac(0)
    /\ accum["A"].min = accum["B"].min

\* a call of the stand-alone Timer's member op happens in this step
SwCalls(op) == unitOp'.n = unitOp.n + 1 /\ unitOp'.op = op

C14_Step ==
    /\ (SwCalls("start") /\ sw.running) =>
          /\ sw' = sw
          /\ TimerElapsed(sw', now') = TimerElapsed(sw, now)
    /\ (SwCalls("stop") /\ ~sw.running) =>
          /\ sw' = sw
          /\ TimerElapsed(sw', now') = TimerElapsed(sw, now)

\* C14: Timer::start() on a running timer changes nothing (the start instant
\* is kept, the elapsed clock is not restarted), and Timer::stop() on a timer
\* that is not running changes nothing (accumulated time, last lap and
\* running flag are unchanged).
C14_TimerIdempotent == [][C14_Step]_vars

\* C14 case: start() was called on a running timer after the clock had moved
\* on, and stop() was called on a stopped timer that had accumulated time.
C14_Witness ==
    /\ unitOp.noops = {"start", "stop"}
    /\ unitOp.op = "stop"
    /\ sw.elapsed = MaxSwClock
    /\ sw.last_lap = MaxSwClock
    /\ ~sw.running

\* get_stats_report() of registry r would return a row for name n
HasRow(r, n) ==
    LET rows == get_stats_report(r, LiveView, 1)
    IN  \E k \in 1..Len(rows) : rows[k].name = n

\* what reset<n>() on registry r promises about the step that performs it
ResetPost(r, n) ==
    LET id == CtSlotID(n)
    IN  /\ \A x \in live_threads_[r] : tloc'[x].ct_slots[id] = NewSlot
        /\ GraveyardAt(graveyard_'[r], n) = NewStats
        /\ \A k \in 1..Len(thread_graveyard_'[r]) : thread_graveyard_'[r][k].name # n
        /\ ~HasRow(r, n)'
        /\ known_names_' = known_names_
        /\ ct_names_' = ct_names_
        /\ \A x \in Threads :
              /\ tloc'[x].ct_active = tloc[x].ct_active
              /\ \A m \in SlotIds \ {id} : tloc'[x].ct_slots[m] = tloc[x].ct_slots[m]
        /\ \A m \in Names \ {n} :
              /\ GraveyardAt(graveyard_'[r], m) = GraveyardAt(graveyard_[r], m)
              /\ SelectSeq(thread_graveyard_'[r], LAMBDA row : row.name = m)
                    = SelectSeq(thread_graveyard_[r], LAMBDA row : row.name = m)

C15_ResetStep ==
    \A t \in Threads, r \in Regs, n \in Names : Reset(t, r, n) => ResetPost(r, n)

\* C15: when reset<n>() returns, the slot for n of every live thread of the
\* registry holds a stopped, zeroed timer and zeroed stats, the graveyard
\* aggregate for n is zero, no thread-graveyard snapshot for n remains, a
\* report has no row for n, the name stays registered, and the data of every
\* other name is unchanged.
C15_ResetPostcondition == [][C15_ResetStep]_vars

C16_StopStep ==
    \A t \in Threads, r \in Regs, n \in Names :
        LET slot == tloc[t].ct_slots[CtSlotID(n)]
        IN  (/\ Stop(t, r, n)
             /\ wasReset[r][n]
             /\ tloc[t].ct_active[CtSlotID(n)]
             /\ ~slot.timer.running)
            => tloc'[t].ct_slots[CtSlotID(n)].stats = slot.stats

\* C16, timer part: after reset<n>() the stats of n hold only intervals whose
\* start and stop both came after the reset. reset<n>() leaves the timer
\* stopped, so a stop<n>() that finds it stopped closes no such interval and
\* must add no sample, also when the reset was issued while the timer ran.
C16_ResetRoundTrip == [][C16_StopStep]_vars

\* C19: each make_scoped_timer<n>(reg) object adds exactly one sample to the
\* calling thread's stats for n when it is destroyed: the count of the
\* thread's stats for n is the number of scoped timers on n the thread has
\* destroyed, nested or not, and once none is alive the timer is not running.
C19_ScopedTimerOneSample ==
    \A t \in Threads, n \in Names :
        LET slot == tloc[t].ct_slots[CtSlotID(n)]
        IN  /\ slot.stats.count = destroyed[t][n]
            /\ (\A k \in 1..Len(scoped[t]) : scoped[t][k].n # n) => ~slot.timer.running

\* C19 case: a thread made two scoped timers on one name, one inside the
\* other, and both have been destroyed.
C19_Witness ==
    \E t \in Threads, n \in Names :
        /\ destroyed[t][n] = 2
        /\ scoped[t] = <<>>
        /\ ops = 4
        /\ tloc[t].ct_slots[CtSlotID(n)].timer.elapsed > 0
        /\ tloc[t].ct_slots[CtSlotID(n)].stats.max > 0
        /\ tloc[t].ct_slots[CtSlotID(n)].stats.min = 0

\* the CtScopedCounter objects on counter n of registry r alive on thread t
AliveOn(t, r, n) ==
    Cardinality({k \in 1..Len(scoped[t]) :
                    scoped[t][k] = [kind |-> "counter", r |-> r, n |-> n]})

\* C20: with no counter_set / counter_reset on the name, the value of counter
\* n of registry r is what the plain counter_inc calls made it plus the number of make_scoped_counter<n> objects alive on r, over all
\* threads and nestings, at every point; counter_get<n>() returns that value,
\* and with no scoped counter alive the counter is back at the plain value.
C20_ScopedCounterDepth ==
    \A r \in StatRegs, n \in Names :
        LET depth == SumOver([t \in Threads |-> AliveOn(t, r, n)], Threads)
            expected == CounterExpected(r, CtStatID(n)) + depth
        IN  /\ ct_counters_[r][CtStatID(n)] = expected
            /\ (report.kind = "counter_get" /\ report.reg = r /\ report.name = n)
                  => report.value = expected

\* C20 case: counter_get returns while two scoped counters on the name are
\* alive on one thread, one inside the other, and a third on another thread.
C20_Witness ==
    \E r \in StatRegs, n \in Names :
        /\ report.kind = "counter_get" /\ report.reg = r /\ report.name = n
        /\ report.value = 3
        /\ AliveOn("t1", r, n) = 2
        /\ AliveOn("t2", r, n) = 1

\* the rows get_counter_report() and get_gauge_report() of registry q build
\* from the given storage
CounterReportIn(counters, active, names, q) ==
    LET ids == SelectSeq(StatIdSeq, LAMBDA i : active[q][i])
    IN  [k \in 1..Len(ids) |-> [name |-> names[q][ids[k]], value |-> counters[q][ids[k]]]]
GaugeReportIn(gauges, active, names, q) ==
    LET ids == SelectSeq(StatIdSeq, LAMBDA i : active[q][i] /\ gauges[q][i].stats.count # 0)
    IN  [k \in 1..Len(ids) |-> GaugeRow(names[q][ids[k]], gauges[q][ids[k]].stats)]

\* this step belongs to an operation called on registry r
OpOn(r) ==
    \/ \E t \in Threads : pc[t] = "idle" /\ pc'[t] # "idle" /\ arg'[t].r = r
    \/ \E t \in Threads : pc[t] # "idle" /\ arg[t].r = r /\ pc'[t] # pc[t]
    \/ \E t \in Threads : pc[t] # "idle" /\ arg[t].r = r /\ arg'[t] # arg[t]
    \/ \E t \in Threads, n \in Names, v \in Deltas : CounterSet(t, r, n, v)
    \/ \E t \in Threads, n \in Names : CounterReset(t, r, n)
    \/ \E t \in Threads, n \in Names : CounterGet(t, r, n)
    \/ \E t \in Threads, n \in Names : GaugeReset(t, r, n)
    \/ \E t \in Threads, n \in Names : HistogramResetCall(t, r, n)
    \/ \E t \in Threads : /\ ScopedCounterDestroy(t)
                           /\ scoped[t][Len(scoped[t])].r = r

C17_Step ==
    \/ ReportSeen
    \/ \E r \in StatRegs :
          /\ OpOn(r)
          /\ \A q \in StatRegs \ {r} :
                /\ ct_counters_'[q] = ct_counters_[q]
                /\ ct_counter_active_'[q] = ct_counter_active_[q]
                /\ ct_gauges_'[q] = ct_gauges_[q]
                /\ ct_gauge_active_'[q] = ct_gauge_active_[q]
                /\ ct_hist_entries_'[q] = ct_hist_entries_[q]
                /\ ct_hist_active_'[q] = ct_hist_active_[q]
                /\ ct_stat_names_'[q] = ct_stat_names_[q]
                /\ stats_mutex_'[q] = stats_mutex_[q]
                /\ CounterReportIn(ct_counters_', ct_counter_active_', ct_stat_names_', q)
                      = CounterReportIn(ct_counters_, ct_counter_active_, ct_stat_names_, q)
                /\ GaugeReportIn(ct_gauges_', ct_gauge_active_', ct_stat_names_', q)
                      = GaugeReportIn(ct_gauges_, ct_gauge_active_, ct_stat_names_, q)
                /\ HistReportIn(ct_hist_entries_', ct_hist_active_', ct_stat_names_', q)
                      = HistReportIn(ct_hist_entries_, ct_hist_active_, ct_stat_names_, q)

\* C17: every step of a counter_*, gauge_*, histogram_* or scoped-counter
\* operation called on one StatsRegistry (reset and histogram_create
\* included) leaves the storage of the other StatsRegistry, and everything
\* its counter_get and its three reports return, unchanged, also when both
\* registries use the same name.
C17_InstancesIndependent == [][C17_Step]_vars

\* C17 case: both registries have a counter under the same name, the calls on
\* each have returned, and the two counters hold different values.
C17_Witness ==
    /\ ct_counters_["r1"][CtStatID("a")] # ct_counters_["r2"][CtStatID("a")]
    /\ ct_counter_active_["r1"][CtStatID("a")]
    /\ ct_counter_active_["r2"][CtStatID("a")]
    /\ sops = MaxStatOps
    /\ pc["t1"] = "idle"

\* the names whose id of kind k has been assigned
Resolved(k) == {n \in ProgramNames : value[k][hash_name(n)] # Unassigned}

C18_Ids ==
    \A k \in Kinds :
        /\ \A n \in Resolved(k) : value[k][hash_name(n)] \in 0..(MaxSlots(k) - 1)
        /\ \A n, m \in Resolved(k) :
              n # m => value[k][hash_name(n)] # value[k][hash_name(m)]
        /\ Cardinality(Resolved(k)) <= MaxSlots(k)
        /\ (next[k] > MaxSlots(k)) =>
              (aborted \/ \E t \in Threads : initPc[t].k = k /\ initPc[t].idx >= MaxSlots(k))

C18_Step ==
    /\ \A k \in Kinds, h \in Hashes :
          value[k][h] # Unassigned => value'[k][h] = value[k][h]
    /\ \A t \in Threads :
          (initPc[t] # NoInit /\ initPc'[t] = NoInit /\ initPc[t].idx >= MaxSlots(initPc[t].k))
              => (aborted' /\ value' = value)

\* C18: every resolution of a name reads the one id its hash was given; the
\* ids given are in [0, MAX), no two names share one, and an id once given
\* is never changed; when more names are resolved than MAX the process
\* aborts and no out-of-range or reused id is returned. The initialisers run
\* concurrently on two threads.
C18_NameToSlot == []C18_Ids /\ [][C18_Step]_vars

\* C18 case: the initialisers raced, the names got their ids out of order,
\* every timer id is taken, and the process aborted on one name too many.
C18_Witness ==
    /\ aborted
    /\ Cardinality(Resolved("timer")) = MAX_CT_TIMERS
    /\ value["timer"][hash_name("a")] = 1
    /\ value["timer"][hash_name("b")] = 0

\* counter n of registry r holds a value written by counter_set, or was the
\* target of a counter_inc / counter_dec, since its last reset
Written(r, n) ==
    \/ ctrExpect[r][CtStatID(n)].base # 0
    \/ \E t \in Threads : ctrExpect[r][CtStatID(n)].incs[t] > 0
    \/ \E t \in Threads : ctrExpect[r][CtStatID(n)].decs[t] > 0

MayCallTimer(t) ==
    tstate[t] = "running" /\ regAlive["r1"] /\ report = NoReport /\ slow[t] = NoSlow

\* stop<n>() can be made: stopped is the slot slot->stop() leaves
C22_CanStop(t, n) ==
    \E stopped \in {SlotStop(tloc[t].ct_slots[CtSlotID(n)], now)} :
        ENABLED (slow[t] = NoSlow /\ StopSlotTo(t, "r1", n, stopped) /\ UNCHANGED scopeVars)

C22_Timer(t, n) ==
    (MayCallTimer(t) /\ tloc[t].ct_active[CtSlotID(n)]) =>
        /\ ops < MaxOps => ENABLED HotStart(t, "r1", n)
        /\ ops < MaxOps => C22_CanStop(t, n)
        /\ ENABLED ReadSlot(t, "r1", n)

C22_Counter(t, n) ==
    /\ (CanCallStats(t) /\ ct_counter_active_["r1"][CtStatID(n)]) =>
          /\ ENABLED CounterInc(t, "r1", n, 1)
          /\ ENABLED CounterDec(t, "r1", n, 1)
          /\ ENABLED CounterSet(t, "r1", n, MaxDelta)
          /\ ENABLED CounterGet(t, "r1", n)
    /\ (At(t, "ensure_counter") /\ ct_counter_active_[arg[t].r][CtStatID(arg[t].n)]) =>
          ENABLED (EnsureCounterCheck(t) /\ pc'[t] = "idle")

\* C22: once a thread has called start<n>() its start<n>(), stop<n>(),
\* stop(Slot*), is_running<n>(), elapsed<n>() and stats<n>() calls can be made
\* and completed whoever holds mutex_, and counter_inc / counter_dec /
\* counter_set / counter_get on a registered counter can be made and
\* completed whoever holds stats_mutex_: none of them waits for a lock.
C22_HotPathLockFree ==
    \A t \in Threads, n \in Names : C22_Timer(t, n) /\ C22_Counter(t, n)

\* C22 case: the other thread took mutex_ inside reset<a>() after the thread's
\* first start<a>(), and while it still holds it the thread has completed a
\* stop<a>() and a further start<a>().
C22_Witness ==
    /\ slow["t2"].op = "reset"
    /\ mutex_["r1"] = "t2"
    /\ slow["t2"].at = 1
    /\ ops = 3
    /\ tloc["t1"].ct_slots[CtSlotID("a")].stats.count = 1
    /\ tloc["t1"].ct_slots[CtSlotID("a")].timer.running

C23_StopStep ==
    \A t \in Threads, n \in Names :
        LET slot == tloc[t].ct_slots[CtSlotID(n)]
        IN  (/\ Stop(t, "r1", n)
             /\ ~wasReset["r1"][n]
             /\ tloc[t].ct_active[CtSlotID(n)]
             /\ ~slot.timer.running)
            => tloc'[t].ct_slots[CtSlotID(n)].stats = slot.stats

\* C23: with no reset<n>() called, a stop<n>() or stop(Slot*) on a timer the
\* thread has started and that is not running records no sample: count,
\* total, mean, min and max stay as they were, so the count is the number of
\* times the timer went from running to stopped.
C23_StopNotRunningIsNoOp == [][C23_StopStep]_vars

\* a Stats object with no sample has mean, M2 and total zero
ZeroWhenEmpty(s) == s.count = 0 => (s.mean = Frac(0) /\ s.M2 = Frac(0) /\ s.total = 0)

C25_Step ==
    \A t \in Threads, x \in Threads :
        (x # t /\ (ResetEnd(t) \/ ReportEnd(t))) => tloc'[x].ct_slots = tloc[x].ct_slots

\* C25: a reset<n>() or get_stats_report() executed by one thread leaves the
\* timer and the stats of every slot of every other thread as they were: a
\* thread's slot table is written by its owner only.
C25_SlotsWrittenByOwnerOnly == [][C25_Step]_vars

C26_Step ==
    \A t \in Threads, r \in Regs, q \in Regs, n \in Names :
        (q # r /\ regAlive[q] /\ (Start(t, r, n) \/ Stop(t, r, n))) =>
            SlotView(tloc', now', t, q, n) = SlotView(tloc, now, t, q, n)

\* C26: a start<n>() or stop<n>() a thread makes on one registry leaves what
\* is_running<n>(), elapsed<n>() and stats<n>() of every other registry
\* return to that thread as it was.
C26_TimersPerRegistry == [][C26_Step]_vars

\* every entry of a directory is a thread that has not exited and whose slot
\* table points back to the registry
C27_Entries ==
    \A r \in Regs : \A t \in live_threads_[r] :
        tstate[t] # "exited" /\ tloc[t].tid = t /\ tloc[t].registry = r

\* a thread that has not exited and has a timer it started on a registry
\* still in existence is in that registry's directory
C27_Started ==
    \A t \in Threads, r \in Regs, n \in Names :
        (startReg[t][n] = r /\ regAlive[r] /\ tstate[t] # "exited") => t \in live_threads_[r]

\* C27: the directory of a registry holds the threads that have called start
\* on it and have not exited, and every entry is a live slot table whose
\* registry back-pointer is that registry.
C27_LiveThreadDirectory == C27_Entries /\ C27_Started

\* C28: a thread's exit finalizer never locks, reads or writes a registry
\* that has been destroyed, however the destruction is interleaved with the
\* thread's exit.
C28_NoDanglingRegistry == ~dangling

\* C29: a thread that is about to take the registry-wide lock stats_mutex_
\* holds no per-slot gauge or histogram mutex: where one call needs both,
\* the registry-wide lock comes first.
C29_RegistryLockFirst ==
    \A t \in Threads : AtRegistryLock(t) => ~HoldsSlotMutex(t)

\* thread t is inside a call or inside its exit finalizer
InCall(t) == pc[t] # "idle" \/ slow[t] # NoSlow \/ tstate[t] = "exiting"

\* C30: every call a thread is in, and every exit finalizer, eventually
\* returns, whatever the other threads do with the locks meanwhile: no
\* thread waits for a lock forever.
C30_EveryCallReturns == \A t \in Threads : InCall(t) ~> ~InCall(t)

\* C30 case: one thread holds the gauge's mutex inside its first
\* gauge_record<a>() and waits for stats_mutex_, which the other thread holds
\* inside get_gauge_report().
C30_Witness ==
    /\ pc["t1"] = "ensure_gauge_locked"
    /\ ct_gauges_["r1"][CtStatID("a")].mtx = "t1"
    /\ pc["t2"] = "gauge_report"
    /\ stats_mutex_["r1"] = "t2"

\* ------------------------------------------------ claims, the two reports
\* the rows of a report that carry name n
NamedIn(rows, n) == SelectSeq(rows, LAMBDA row : row.name = n)

\* the per-thread rows P against the merged rows M of registry r: every row
\* has samples, no (name, tid) pair has two rows, each name's rows add up to
\* the name's merged row, and a thread that completed a start/stop cycle of a
\* name not reset since has a row for it
ReportsAgree(r, P, M) ==
    /\ \A k \in 1..Len(P) : P[k].call_count > 0
    /\ \A j, k \in 1..Len(P) : (P[j].name = P[k].name /\ P[j].tid = P[k].tid) => j = k
    /\ \A n \in Names \cup {NoName} :
           IF NamedIn(P, n) = <<>> THEN NamedIn(M, n) = <<>>
           ELSE /\ Len(NamedIn(M, n)) = 1
                /\ SumCalls(NamedIn(P, n)) = NamedIn(M, n)[1].call_count
                /\ Len(NamedIn(P, n)) = NamedIn(M, n)[1].thread_count
    /\ \A t \in Threads, n \in Names :
           (cycles[r][t][n] > 0 /\ ~wasReset[r][n]) =>
               \E k \in 1..Len(P) : P[k].name = n /\ P[k].tid = t

\* C31: in every state get_stats_report_per_thread() of a registry has exactly
\* one row per (name, thread) pair with samples, live or exited, each with
\* call_count > 0, and for every name the call_counts of its rows add up to
\* the call_count of the name's row in get_stats_report() of the same state
\* and their number is that row's thread_count.
C31_ReportsAgree ==
    \A r \in Regs :
        regAlive[r] =>
            ReportsAgree(r, get_stats_report_per_thread(r, LiveView),
                         get_stats_report(r, LiveView, 1))

\* ------------------------------------------------ claims, the categories
CounterOps == {"counter_inc", "counter_dec", "make_scoped_counter", "get_counter_report"}
GaugeOps == {"gauge_record", "get_gauge_report"}
HistOps == {"histogram_create", "histogram_record", "get_histogram_report"}

\* this step is issued by, or continues, a call whose name is in the set
StepOf(calls) ==
    \E t \in Threads :
        \/ pc[t] = "idle" /\ pc'[t] # "idle" /\ arg'[t].op \in calls
        \/ pc[t] # "idle" /\ arg[t].op \in calls /\ (pc'[t] # pc[t] \/ arg'[t] # arg[t])

\* this step belongs to a timer / counter / gauge / histogram operation
TimerStep == ops' # ops
CounterStep ==
    \/ StepOf(CounterOps)
    \/ \E t \in Threads, r \in StatRegs, n \in Names :
           \/ \E v \in Deltas : CounterSet(t, r, n, v)
           \/ CounterReset(t, r, n)
           \/ CounterGet(t, r, n)
GaugeStep ==
    \/ StepOf(GaugeOps)
    \/ \E t \in Threads, r \in StatRegs, n \in Names : GaugeReset(t, r, n)
HistStep ==
    \/ StepOf(HistOps)
    \/ \E t \in Threads, r \in StatRegs, n \in Names : HistogramResetCall(t, r, n)

\* what each category holds: its storage, and the rows its report builds from it
TimerData ==
    <<tloc, live_threads_, graveyard_, thread_graveyard_, known_names_,
      known_names_order_, ct_names_>>
CounterData(counters, active, names) ==
    <<counters, active, [r \in StatRegs |-> CounterReportIn(counters, active, names, r)]>>
GaugeData(gauges, active, names) ==
    <<gauges, active, [r \in StatRegs |-> GaugeReportIn(gauges, active, names, r)]>>
HistData(entries, active, names) ==
    <<entries, active, [r \in StatRegs |-> HistReportIn(entries, active, names, r)]>>

TimersKept == TimerData' = TimerData
CountersKept ==
    CounterData(ct_counters_', ct_counter_active_', ct_stat_names_')
        = CounterData(ct_counters_, ct_counter_active_, ct_stat_names_)
GaugesKept ==
    GaugeData(ct_gauges_', ct_gauge_active_', ct_stat_names_')
        = GaugeData(ct_gauges_, ct_gauge_active_, ct_stat_names_)
HistsKept ==
    HistData(ct_hist_entries_', ct_hist_active_', ct_stat_names_')
        = HistData(ct_hist_entries_, ct_hist_active_, ct_stat_names_)

\* name n is the name of one of the rows
AppearsIn(rows, n) == \E k \in 1..Len(rows) : rows[k].name = n

\* a call of the set is in progress on name n of registry r
Serving(calls, r, n) ==
    \E t \in Threads :
        pc[t] # "idle" /\ arg[t].op \in calls /\ arg[t].r = r /\ arg[t].n = n

\* a name enters the rows of a category's report only through a call of that
\* category on that name
C32_NamesEnter ==
    \A r \in StatRegs, n \in Names \cup {NoName} :
        /\ (/\ AppearsIn(CounterReportIn(ct_counters_', ct_counter_active_',
                                         ct_stat_names_', r), n)
            /\ ~AppearsIn(CounterReportIn(ct_counters_, ct_counter_active_,
                                          ct_stat_names_, r), n))
               => Serving(CounterOps, r, n)
        /\ (/\ AppearsIn(GaugeReportIn(ct_gauges_', ct_gauge_active_',
                                       ct_stat_names_', r), n)
            /\ ~AppearsIn(GaugeReportIn(ct_gauges_, ct_gauge_active_,
                                        ct_stat_names_, r), n))
               => Serving(GaugeOps, r, n)
        /\ (/\ AppearsIn(HistReportIn(ct_hist_entries_', ct_hist_active_',
                                      ct_stat_names_', r), n)
            /\ ~AppearsIn(HistReportIn(ct_hist_entries_, ct_hist_active_,
                                       ct_stat_names_, r), n))
               => Serving(HistOps, r, n)

\* the report a get_*_report() call returns names only what its category holds
C32_Returned ==
    \A n \in Names \cup {NoName} :
        (report' # report /\ report'.kind \in {"counter", "gauge", "histogram"}
             /\ AppearsIn(report'.rows, n))
            => LET r == report'.reg
               IN  CASE report'.kind = "counter" ->
                            AppearsIn(CounterReportIn(ct_counters_, ct_counter_active_,
                                                      ct_stat_names_, r), n)
                     [] report'.kind = "gauge" ->
                            AppearsIn(GaugeReportIn(ct_gauges_, ct_gauge_active_,
                                                    ct_stat_names_, r), n)
                     [] report'.kind = "histogram" ->
                            AppearsIn(HistReportIn(ct_hist_entries_, ct_hist_active_,
                                                   ct_stat_names_, r), n)

C32_Step ==
    /\ TimerStep => CountersKept /\ GaugesKept /\ HistsKept
    /\ CounterStep => TimersKept /\ GaugesKept /\ HistsKept
    /\ GaugeStep => TimersKept /\ CountersKept /\ HistsKept
    /\ HistStep => TimersKept /\ CountersKept /\ GaugesKept
    /\ C32_NamesEnter
    /\ C32_Returned

\* C32: timer, counter, gauge and histogram data are kept apart. A step of an
\* operation of one category leaves the storage (values, statistics, created
\* and active flags) and the report rows of the three other categories as
\* they were; a name comes to appear in the rows of a category's report only
\* by a call of that category on that name, so a name used only as a timer
\* never appears in get_counter_report(), get_gauge_report() or
\* get_histogram_report().
C32_CategoriesApart == [][C32_Step]_vars

\* C32 case: the name a has been timed, counted and recorded as a gauge in r1,
\* and the get_histogram_report() returned after that has no row.
C32_Witness ==
    /\ report.kind = "histogram"
    /\ report.reg = "r1"
    /\ report.rows = <<>>
    /\ tloc["t1"].ct_slots[CtSlotID("a")].stats.count > 0
    /\ ct_counter_active_["r1"][CtStatID("a")]
    /\ ct_gauge_active_["r1"][CtStatID("a")]
    /\ ct_gauges_["r1"][CtStatID("a")].stats.count > 0

\* ------------------------------------------------ claims, the stopwatch
\* the calls made on the Timer since its last reset(), oldest first
SinceReset ==
    LET log == unitOp.calls
        resets == {k \in 1..Len(log) : log[k].op = "reset"}
        last == IF resets = {} THEN 0 ELSE CHOOSE k \in resets : \A j \in resets : j <= k
    IN  SubSeq(log, last + 1, Len(log))

\* call k of s found the timer stopped (s holds start and stop calls only)
FoundStopped(s, k) == k = 1 \/ s[k - 1].op = "stop"

\* the stop calls of s that ended an interval, and the start call that began it
Ends(s) == {k \in 1..Len(s) : s[k].op = "stop" /\ ~FoundStopped(s, k)}
BeginOf(s, k) ==
    CHOOSE i \in 1..(k - 1) :
        /\ s[i].op = "start" /\ FoundStopped(s, i)
        /\ \A j \in (i + 1)..(k - 1) : s[j].op = "start"

\* the duration of the interval that the stop call k of s ended
Lap(s, k) == s[k].at - s[BeginOf(s, k)].at

\* the timer is inside an interval after the calls s, which began at call Open(s)
Open(s) == BeginOf(s, Len(s) + 1)
Running(s) == s # <<>> /\ s[Len(s)].op = "start"

\* C33, state part: the accumulated elapsed time is the sum of the durations
\* of the completed start-to-stop intervals since the last reset, plus the
\* time since the start when running; last_lap_ns() is the duration of the most
\* recent completed interval, 0 if there is none since the reset.
C33_Accumulated ==
    LET s == SinceReset
        ends == Ends(s)
        done == SumOver([k \in ends |-> Lap(s, k)], ends)
    IN  /\ sw.running = Running(s)
        /\ TimerElapsed(sw, now) = done + (IF Running(s) THEN now - s[Open(s)].at ELSE 0)
        /\ sw.last_lap = IF ends = {} THEN 0
                         ELSE Lap(s, CHOOSE k \in ends : \A j \in ends : j <= k)

\* C33, step part: reset() leaves the timer stopped with zero elapsed and
\* zero lap, and elapsed() never decreases over a step that is not a reset().
C33_Step ==
    /\ SwCalls("reset") =>
          /\ ~sw'.running
          /\ TimerElapsed(sw', now') = 0
          /\ sw'.last_lap = 0
    /\ ~SwCalls("reset") => TimerElapsed(sw', now') >= TimerElapsed(sw, now)

\* C33: stopwatch accumulation of a Timer under any sequence of start(),
\* stop() and reset() calls with a non-decreasing clock: elapsed is the sum of
\* the completed intervals since the last reset plus the running time,
\* last_lap_ns() is the most recent completed interval, reset() zeroes both and
\* stops the timer, and reads of elapsed() with no reset between them never
\* decrease.
C33_StopwatchAccumulates == [](C33_Accumulated) /\ [][C33_Step]_vars

\* C33 case: a reset() discarded an interval that had accumulated time; since
\* then one interval was completed and the timer, started again, has run on.
C33_Witness ==
    /\ \E k \in 1..Len(unitOp.calls) : unitOp.calls[k].op = "reset" /\ unitOp.calls[k].at > 0
    /\ Cardinality(Ends(SinceReset)) = 1
    /\ sw.running
    /\ sw.last_lap = 1
    /\ TimerElapsed(sw, now) = 2
====
